---- MODULE Spec2Model ----
(***************************************************************************)
(* A model of the data core of the DSSAT viewer: the date normaliser, the  *)
(* metrics engine, the type standardiser, the simulated/observed variable  *)
(* pairing and the x-axis reconciler.  Each pure function of the source is *)
(* an operator computed the way the code computes it; each specification   *)
(* draws the function's inputs in its initial states and applies it in one *)
(* action.                                                                 *)
(***************************************************************************)
EXTENDS Integers, Sequences, FiniteSets, TLC

VARIABLES
    pc,              \* "call" before the function under study ran, "done" after
    callee,          \* the name of the function under study
    year,            \* unified_date_convert: argument year (or None)
    doy,             \* unified_date_convert: argument doy (or None)
    date_str,        \* unified_date_convert: argument date_str (or None)
    date_result,     \* unified_date_convert: returned value
    sim_values,      \* calculate_metrics: argument sim_values
    obs_values,      \* calculate_metrics: argument obs_values
    metrics_result,  \* calculate_metrics: returned value
    df,              \* standardize_dtypes: argument df
    int_is_integer,  \* whether the running Python has int.is_integer (3.12 on)
    dtypes_result,   \* standardize_dtypes: returned value
    data,            \* get_evaluate_variable_pairs: argument data
    variable_info,   \* what parse_data_cde reads from DATA.CDE: code -> label
    pairs_result,    \* get_evaluate_variable_pairs: returned list
    obs_data,        \* handle_missing_xvar: argument obs_data (the caller's frame)
    x_var,           \* handle_missing_xvar: argument x_var
    sim_data,        \* handle_missing_xvar: argument sim_data (the caller's frame)
    fillna_method,   \* whether the installed pandas has fillna(method=) (before 3.0)
    xvar_result,     \* handle_missing_xvar: what the call returned or raised
    out_file,        \* read_file: the lines at file_path, None without a file
    read_file_result,    \* read_file: what the call returned and logged
    treatment_file,  \* read_treatments: the lines at file_path, None without a file
    treatments_result,   \* read_treatments: what the call returned and logged
    crop_info,       \* read_observed_data: whether get_crop_details knows the folder
    t_file,          \* read_observed_data: the lines of the T file, None without one
    y_vars,          \* read_observed_data: argument
    observed_result, \* read_observed_data: what the call returned and logged
    evaluate_crop,   \* read_evaluate_file: whether get_crop_details knows the folder
    evaluate_file,   \* read_evaluate_file: the lines of EVALUATE.OUT, None without one
    evaluate_result, \* read_evaluate_file: what the call returned and logged
    scale_data,      \* improved_smart_scale: argument data (the caller's frame)
    variables,       \* improved_smart_scale: argument variables
    scaling_factors, \* improved_smart_scale: argument scaling_factors
    scaled_data,     \* improved_smart_scale: returned dict
    input_data,      \* create_batch_file: argument input_data
    crop_directory,  \* create_batch_file: what get_crop_details has for the folder
    experiment_exists,   \* create_batch_file: whether the experiment file exists
    batch_file,      \* create_batch_file: BatchFile.v48 on disk, None without one
    batch_result,    \* create_batch_file: what the call returned or raised
    widgets,         \* the viewer: folder_var, experiment_var, treatment_listbox
    self_data,       \* the viewer: self.data, execution_completed and treatments
    threads,         \* the viewer: the threads run_long_task started
    after_queue,     \* the viewer: callbacks root.after(0, ...) has queued
    called,          \* the viewer: callbacks the main thread has executed
    completed_run    \* the viewer: the run_task whose line 287 ran last

vars == <<pc, callee, year, doy, date_str, date_result,
          sim_values, obs_values, metrics_result,
          df, int_is_integer, dtypes_result,
          data, variable_info, pairs_result,
          obs_data, x_var, sim_data, fillna_method, xvar_result,
          out_file, read_file_result, treatment_file, treatments_result,
          crop_info, t_file, y_vars, observed_result,
          evaluate_crop, evaluate_file, evaluate_result,
          scale_data, variables, scaling_factors, scaled_data,
          input_data, crop_directory, experiment_exists, batch_file, batch_result,
          widgets, self_data, threads, after_queue, called, completed_run>>

dateVars == <<year, doy, date_str, date_result>>
metricsVars == <<sim_values, obs_values, metrics_result>>
dtypesVars == <<df, int_is_integer, dtypes_result>>
pairsVars == <<data, variable_info, pairs_result>>
xvarVars == <<obs_data, x_var, sim_data, fillna_method, xvar_result>>
fileVars == <<out_file, read_file_result>>
treatmentsVars == <<treatment_file, treatments_result>>
observedVars == <<crop_info, t_file, y_vars, observed_result>>
readerVars == <<fileVars, treatmentsVars, observedVars>>
evaluateVars == <<evaluate_crop, evaluate_file, evaluate_result>>
scaleVars == <<scale_data, variables, scaling_factors, scaled_data>>
batchVars == <<input_data, crop_directory, experiment_exists, batch_file, batch_result>>
viewerVars == <<widgets, self_data, threads, after_queue, called, completed_run>>
otherVars == <<evaluateVars, scaleVars, batchVars, viewerVars>>

\* An optional argument: None is the empty tuple, a given value v is <<v>>.
None == <<>>
Some(v) == <<v>>

\* The value of a result variable before its function returned, and of the
\* variables a specification does not use.
Unset == [kind |-> "unset"]

IdleDate == year = Unset /\ doy = Unset /\ date_str = Unset /\ date_result = Unset
IdleMetrics == sim_values = Unset /\ obs_values = Unset /\ metrics_result = Unset
IdleDtypes == df = Unset /\ int_is_integer = Unset /\ dtypes_result = Unset
IdlePairs == data = Unset /\ variable_info = Unset /\ pairs_result = Unset
IdleXvar ==
    /\ obs_data = Unset /\ x_var = Unset /\ sim_data = Unset
    /\ fillna_method = Unset /\ xvar_result = Unset
IdleFile == out_file = Unset /\ read_file_result = Unset
IdleTreatments == treatment_file = Unset /\ treatments_result = Unset
IdleObserved ==
    /\ crop_info = Unset /\ t_file = Unset /\ y_vars = Unset
    /\ observed_result = Unset
IdleReaders == IdleFile /\ IdleTreatments /\ IdleObserved
IdleEvaluate ==
    evaluate_crop = Unset /\ evaluate_file = Unset /\ evaluate_result = Unset
IdleScale ==
    /\ scale_data = Unset /\ variables = Unset /\ scaling_factors = Unset
    /\ scaled_data = Unset
IdleBatch ==
    /\ input_data = Unset /\ crop_directory = Unset /\ experiment_exists = Unset
    /\ batch_file = Unset /\ batch_result = Unset
IdleViewer ==
    /\ widgets = Unset /\ self_data = Unset /\ threads = Unset
    /\ after_queue = Unset /\ called = Unset /\ completed_run = Unset
IdleOther == IdleEvaluate /\ IdleScale /\ IdleBatch /\ IdleViewer

-----------------------------------------------------------------------------
(* Bounds of the model *)

\* Largest day-of-year argument drawn (the code's limit is 366).
MaxDoy == 368
\* How far below zero the day-of-year argument is drawn.
NegDoy == 2
\* Largest DDD part of a compact code YYDDD that is drawn.
MaxDoyPart == 368

\* Years drawn for the (year, doy) mode: two- and three-digit years, the
\* edges of the pandas nanosecond Timestamp range, leap and non-leap years.
Years == {91, 199, 1677, 1678, 1900, 1991, 2000, 2024, 2025, 2100, 2261, 2262}

\* Two-digit year parts drawn for the compact code: both sides of the
\* century pivot 30, leap and non-leap years.
YearParts == {0, 4, 25, 30, 31, 91, 96, 99}

-----------------------------------------------------------------------------
(* Text: a Python str is a sequence of one-character strings *)

DigitChars == <<"0", "1", "2", "3", "4", "5", "6", "7", "8", "9">>

isdigit_char(c) == \E i \in 1..10 : DigitChars[i] = c

\* str.isdigit(): non-empty and every character a digit
isdigit(s) == Len(s) > 0 /\ \A i \in 1..Len(s) : isdigit_char(s[i])

digit_val(c) == CHOOSE d \in 0..9 : DigitChars[d + 1] = c

\* int(s) of a string of digits
RECURSIVE int_of_digits(_)
int_of_digits(s) ==
    IF Len(s) = 0 THEN 0
    ELSE 10 * int_of_digits(SubSeq(s, 1, Len(s) - 1)) + digit_val(s[Len(s)])

\* f"{n}" of an integer
RECURSIVE str_of_nat(_)
str_of_nat(n) ==
    IF n < 10 THEN <<DigitChars[n + 1]>>
    ELSE str_of_nat(n \div 10) \o <<DigitChars[(n % 10) + 1]>>

str_of_int(n) == IF n < 0 THEN <<"-">> \o str_of_nat(0 - n) ELSE str_of_nat(n)

\* f"{n:0wd}": zero-padded to width w, never truncated
RECURSIVE zero_pad(_, _)
zero_pad(s, w) == IF Len(s) >= w THEN s ELSE zero_pad(<<"0">> \o s, w)

format_d(n, w) ==
    IF n < 0 THEN <<"-">> \o zero_pad(str_of_nat(0 - n), w - 1)
    ELSE zero_pad(str_of_nat(n), w)

\* str.strip() for the blank character
RECURSIVE lstrip(_)
lstrip(s) == IF Len(s) > 0 /\ s[1] = " " THEN lstrip(Tail(s)) ELSE s

RECURSIVE rstrip(_)
rstrip(s) ==
    IF Len(s) > 0 /\ s[Len(s)] = " " THEN rstrip(SubSeq(s, 1, Len(s) - 1)) ELSE s

strip(s) == rstrip(lstrip(s))

-----------------------------------------------------------------------------
(* pandas.to_datetime(text, format="%Y%j") *)

NaT == [kind |-> "NaT", year |-> 0, dayofyear |-> 0]
Timestamp(y, j) == [kind |-> "date", year |-> y, dayofyear |-> j]
\* the conversion raised (ValueError, OutOfBoundsDatetime)
ParseError == [kind |-> "error", year |-> 0, dayofyear |-> 0]

is_leap(y) == (y % 4 = 0 /\ y % 100 # 0) \/ y % 400 = 0
days_in_year(y) == IF is_leap(y) THEN 366 ELSE 365

\* The first and the last midnight a nanosecond Timestamp holds, as
\* <<year, day-of-year>>: 1677-09-22 and 2262-04-11.
TimestampFirst == <<1677, 265>>
TimestampLast == <<2262, 101>>

in_timestamp_bounds(y, j) ==
    /\ (y > TimestampFirst[1] \/ (y = TimestampFirst[1] /\ j >= TimestampFirst[2]))
    /\ (y < TimestampLast[1] \/ (y = TimestampLast[1] /\ j <= TimestampLast[2]))

\* How many characters the %j pattern
\*   36[0-6]|3[0-5]\d|[1-2]\d\d|0[1-9]\d|00[1-9]|[1-9]\d|0[1-9]|[1-9]
\* takes from the front of s (0: no alternative matches).
match_j(s) ==
    IF Len(s) >= 3 /\ isdigit(SubSeq(s, 1, 3))
       /\ int_of_digits(SubSeq(s, 1, 3)) \in 1..366 THEN 3
    ELSE IF Len(s) >= 2 /\ isdigit(SubSeq(s, 1, 2))
            /\ int_of_digits(SubSeq(s, 1, 2)) >= 1 THEN 2
    ELSE IF Len(s) >= 1 /\ isdigit_char(s[1]) /\ s[1] # "0" THEN 1
    ELSE 0

\* %Y takes exactly four digits, %j what match_j takes, and nothing may be
\* left over.  The date is January 1st of the year plus (julian - 1) days,
\* so day 366 of a 365-day year is January 1st of the next year.
to_datetime_Yj(s) ==
    IF Len(s) < 4 \/ ~isdigit(SubSeq(s, 1, 4)) THEN ParseError
    ELSE
        LET y == int_of_digits(SubSeq(s, 1, 4))
            rest == SubSeq(s, 5, Len(s))
            m == match_j(rest)
            julian == int_of_digits(SubSeq(rest, 1, m))
            ry == IF julian > days_in_year(y) THEN y + 1 ELSE y
            rj == IF julian > days_in_year(y) THEN julian - days_in_year(y) ELSE julian
        IN  IF m = 0 \/ m < Len(rest) THEN ParseError
            ELSE IF y < 1 \/ ~in_timestamp_bounds(ry, rj) THEN ParseError
            ELSE Timestamp(ry, rj)

-----------------------------------------------------------------------------
(* data_processing.unified_date_convert *)

\* A century pivot that sends year part 30 to the 1900s.
century_prefix_below_30(year_part) ==
    IF year_part < 30 THEN <<"2", "0">> ELSE <<"1", "9">>

\* century_prefix = "20" if year_part <= 30 else "19"
century_prefix(year_part) ==
    IF year_part <= 30 THEN <<"2", "0">> ELSE <<"1", "9">>

\* A range check that rejects day 366.
doy_in_range_365(dy) == 1 <= dy /\ dy <= 365

\* 1 <= doy <= 366
doy_in_range(dy) == 1 <= dy /\ dy <= 366

\* The value of the body of the try block; ParseError when it raises.
unified_date_convert_try(yr, dy, ds) ==
    IF ds # None THEN
        LET s == strip(ds[1]) IN
        IF Len(s) = 5 /\ isdigit(s) THEN
            LET year_part == int_of_digits(SubSeq(s, 1, 2))
                doy_part == int_of_digits(SubSeq(s, 3, 5))
                full_year == century_prefix(year_part) \o format_d(year_part, 2)
            IN  to_datetime_Yj(full_year \o format_d(doy_part, 3))
        ELSE NaT
    ELSE IF yr # None /\ dy # None THEN
        IF doy_in_range(dy[1])
        THEN to_datetime_Yj(str_of_int(yr[1]) \o format_d(dy[1], 3))
        ELSE NaT
    ELSE NaT

\* A variant that rejects an out-of-range day-of-year by raising and lets
\* every exception reach the caller.
unified_date_convert_raising(yr, dy, ds) ==
    IF ds = None /\ yr # None /\ dy # None /\ ~doy_in_range(dy[1])
    THEN ParseError
    ELSE unified_date_convert_try(yr, dy, ds)

\* except Exception: return pd.NaT
unified_date_convert(yr, dy, ds) ==
    LET r == unified_date_convert_try(yr, dy, ds)
    IN  IF r.kind = "error" THEN NaT ELSE r

-----------------------------------------------------------------------------
(* Inputs of the date normaliser *)

Doys == (0 - NegDoy)..MaxDoy

CompactCodes ==
    { format_d(yy, 2) \o format_d(d, 3) : yy \in YearParts, d \in 0..MaxDoyPart }

\* Compact codes, the same surrounded by blanks, and strings that are not
\* five digits: four digits, six digits, a letter among the digits, empty.
DateStrs ==
    CompactCodes
    \cup { <<" ">> \o c : c \in CompactCodes }
    \cup { c \o <<" ">> : c \in CompactCodes }
    \cup { SubSeq(c, 1, 4) : c \in CompactCodes }
    \cup { c \o <<"0">> : c \in CompactCodes }
    \cup { [c EXCEPT ![3] = "A"] : c \in CompactCodes }
    \cup { <<>> }

InitDate ==
    /\ pc = "call"
    /\ callee = "unified_date_convert"
    /\ IdleOther
    /\ \/ /\ date_str \in { Some(s) : s \in DateStrs }
          /\ year = None
          /\ doy = None
       \/ /\ date_str = None
          /\ year \in { Some(y) : y \in Years } \cup {None}
          /\ doy \in { Some(d) : d \in Doys } \cup {None}
    /\ date_result = Unset
    /\ IdleMetrics /\ IdleDtypes /\ IdlePairs /\ IdleXvar /\ IdleReaders

Call_unified_date_convert ==
    /\ pc = "call"
    /\ callee = "unified_date_convert"
    /\ date_result' = unified_date_convert(year, doy, date_str)
    /\ pc' = "done"
    /\ UNCHANGED callee
    /\ UNCHANGED otherVars
    /\ UNCHANGED <<year, doy, date_str, metricsVars, dtypesVars, pairsVars, xvarVars, readerVars>>

NextDate == Call_unified_date_convert

SpecDate == InitDate /\ [][NextDate]_vars

-----------------------------------------------------------------------------
(* Claims about unified_date_convert (specification SpecDate) *)

YearDoyCall ==
    pc = "done" /\ date_str = None /\ year # None /\ doy # None

\* Years all of whose days a nanosecond Timestamp holds.
FullYears == (TimestampFirst[1] + 1)..(TimestampLast[1] - 1)

\* C1 as stated: for every (year, day-of-year) with day-of-year in 1..366,
\* day 366 of a non-leap year included, the returned date is non-null, has
\* the input year and the input day-of-year.
C1_AsStated ==
    (YearDoyCall /\ doy[1] \in 1..366)
        => date_result = Timestamp(year[1], doy[1])

\* C1 as amended: for every four-digit year whose days all lie in the
\* Timestamp range (1678..2261) and every day-of-year that exists in that
\* year (1..365, and 366 in a leap year), the returned date is non-null, has
\* the input year and the input day-of-year.
C1_ValidDayOfYear ==
    (YearDoyCall /\ year[1] \in FullYears /\ doy[1] \in 1..days_in_year(year[1]))
        => date_result = Timestamp(year[1], doy[1])

\* Day 366 of leap year 2024 has been converted.
C1_Witness ==
    /\ YearDoyCall /\ year = Some(2024) /\ doy = Some(366)
    /\ date_result = Timestamp(2024, 366)

\* C2: for every integer day-of-year outside 1..366 and any year the call
\* returns the null date and does not raise.
C2_OutOfRangeIsNaT ==
    (YearDoyCall /\ doy[1] \notin 1..366) => date_result = NaT

\* Day-of-year 367 and day-of-year 0 have been rejected with NaT.
C2_Witness ==
    /\ YearDoyCall /\ doy \in {Some(367), Some(0), Some(-1)}
    /\ date_result = NaT

DateStrCall == pc = "done" /\ date_str # None

\* What C3 says the call returns for the text s: a code of exactly five
\* digits YYDDD with DDD a day of year 2000+YY (YY <= 30) or 1900+YY
\* (YY > 30) gives that day; a text that is not exactly five digits gives
\* NaT.  (A five-digit code whose DDD is no day of the year is not covered.)
C3_Expected(s, result) ==
    IF Len(s) = 5 /\ isdigit(s) THEN
        LET yy == int_of_digits(SubSeq(s, 1, 2))
            ddd == int_of_digits(SubSeq(s, 3, 5))
            full == IF yy <= 30 THEN 2000 + yy ELSE 1900 + yy
        IN  ddd \in 1..days_in_year(full) => result = Timestamp(full, ddd)
    ELSE result = NaT

\* C3 as stated: the rule applies to date_str as it is passed.
C3_AsStated == DateStrCall => C3_Expected(date_str[1], date_result)

\* C3 as amended: the rule applies to date_str with surrounding whitespace
\* removed, so a five-digit code with blanks around it is converted like
\* the bare code and only a text that is not five digits after stripping
\* gives NaT.
C3_AfterStrip == DateStrCall => C3_Expected(strip(date_str[1]), date_result)

\* "91060" has been converted to day 60 of 1991 and "30001" to 2030.
C3_Witness ==
    /\ DateStrCall
    /\ \/ /\ date_str = Some(<<"9", "1", "0", "6", "0">>)
          /\ date_result = Timestamp(1991, 60)
       \/ /\ date_str = Some(<<"3", "0", "0", "0", "1">>)
          /\ date_result = Timestamp(2030, 1)

-----------------------------------------------------------------------------
(* models/metrics.py: MetricsCalculator *)

\* A cell of a float array: NaN is the empty tuple, the number v is <<v>>.
\* The numbers drawn are small integers, which float arithmetic adds,
\* subtracts and multiplies exactly.
NaN == <<>>
Num(v) == <<v>>

isnan(c) == c = NaN

abs(x) == IF x < 0 THEN 0 - x ELSE x

min(a, b) == IF a <= b THEN a ELSE b

RECURSIVE np_sum(_)
np_sum(a) == IF Len(a) = 0 THEN 0 ELSE a[1] + np_sum(Tail(a))

\* A statistic that is a Python None, and one that is a number: the number
\* num/den, or the square root of num/den when root is TRUE, negated when neg
\* is TRUE.  The statistics are kept as exact fractions of integers.
NoStat == [null |-> TRUE, num |-> 0, den |-> 1, root |-> FALSE, neg |-> FALSE]
Fraction(a, b) == [null |-> FALSE, num |-> a, den |-> b, root |-> FALSE, neg |-> FALSE]
RootOf(a, b, negative) ==
    [null |-> FALSE, num |-> a, den |-> b, root |-> TRUE, neg |-> negative]

\* A mask that leaves the first position out.
valid_mask_from_second(sim, obs, min_length) ==
    { i \in 2..min_length : ~isnan(sim[i]) /\ ~isnan(obs[i]) }

\* mask = ~np.isnan(sim_values[:min_length]) & ~np.isnan(obs_values[:min_length])
valid_mask(sim, obs, min_length) ==
    { i \in 1..min_length : ~isnan(sim[i]) /\ ~isnan(obs[i]) }

\* a[:min_length][mask], as a sequence of numbers
RECURSIVE select(_, _, _)
select(a, mask, i) ==
    IF i > Len(a) THEN <<>>
    ELSE (IF i \in mask THEN <<a[i][1]>> ELSE <<>>) \o select(a, mask, i + 1)

\* sum((M - S) ** 2)
sum_sq_diff(M, S) == np_sum([i \in 1..Len(M) |-> (M[i] - S[i]) * (M[i] - S[i])])

\* len(M)**2 * sum((|M - mean(M)| + |S - mean(M)|) ** 2), the mean taken as
\* sum(M)/len(M) and every term scaled by len(M) to stay in the integers
scaled_denominator(M, S) ==
    LET k == Len(M)
        t == np_sum(M)
    IN  np_sum([i \in 1..k |->
            (abs(k * M[i] - t) + abs(k * S[i] - t))
          * (abs(k * M[i] - t) + abs(k * S[i] - t))])

\* A d-stat that forgets the "1 -".
d_stat_ratio(measured, simulated) ==
    LET k == Len(measured)
        numerator == k * k * sum_sq_diff(measured, simulated)
        denominator == scaled_denominator(measured, simulated)
    IN  IF denominator # 0 THEN Fraction(numerator, denominator) ELSE NoStat

\* return 1 - (numerator / denominator) if denominator != 0 else None
d_stat(measured, simulated) ==
    LET k == Len(measured)
        numerator == k * k * sum_sq_diff(measured, simulated)
        denominator == scaled_denominator(measured, simulated)
    IN  IF denominator # 0
        THEN Fraction(denominator - numerator, denominator)
        ELSE NoStat

\* np.sqrt(np.mean((obs_values - sim_values) ** 2))
rmse(obs, sim) == RootOf(sum_sq_diff(obs, sim), Len(obs), FALSE)

\* An NRMSE that is refused for every non-positive mean.
nrmse_positive_mean(obs, sim) ==
    IF np_sum(obs) > 0
    THEN RootOf(100 * 100 * Len(obs) * sum_sq_diff(obs, sim),
                np_sum(obs) * np_sum(obs), FALSE)
    ELSE NoStat

\* (rmse_value / mean_obs) * 100 if mean_obs != 0 else None, as the root of
\* its square 100^2 * (sse/n) / (sum/n)^2, negative when mean_obs < 0
nrmse(obs, sim) ==
    IF np_sum(obs) # 0
    THEN RootOf(100 * 100 * Len(obs) * sum_sq_diff(obs, sim),
                np_sum(obs) * np_sum(obs), np_sum(obs) < 0)
    ELSE NoStat

ReturnsNone ==
    [kind |-> "None", TRT |-> "", n |-> 0, RMSE |-> NoStat, NRMSE |-> NoStat,
     d_stat |-> NoStat]

calculate_metrics(sim, obs, treatment_number) ==
    IF Len(sim) = 0 \/ Len(obs) = 0 THEN ReturnsNone
    ELSE
        LET min_length == min(Len(sim), Len(obs))
            mask == valid_mask(sim, obs, min_length)
            sim_f == select(SubSeq(sim, 1, min_length), mask, 1)
            obs_f == select(SubSeq(obs, 1, min_length), mask, 1)
        IN  IF Len(sim_f) = 0 THEN ReturnsNone
            ELSE [kind |-> "record",
                  TRT |-> treatment_number,
                  n |-> Len(sim_f),
                  RMSE |-> rmse(obs_f, sim_f),
                  NRMSE |-> nrmse(obs_f, sim_f),
                  d_stat |-> d_stat(obs_f, sim_f)]

-----------------------------------------------------------------------------
(* Inputs of the metrics engine *)

\* Longest array drawn.
MaxLen == 3

\* The numbers an array holds, besides NaN.
MetricValues == {-1, 0, 1}

MetricCells == { Num(v) : v \in MetricValues } \cup {NaN}

Arrays == UNION { [1..k -> MetricCells] : k \in 0..MaxLen }

InitMetrics ==
    /\ pc = "call"
    /\ callee = "calculate_metrics"
    /\ IdleOther
    /\ sim_values \in Arrays
    /\ obs_values \in Arrays
    /\ metrics_result = Unset
    /\ IdleDate /\ IdleDtypes /\ IdlePairs /\ IdleXvar /\ IdleReaders

Call_calculate_metrics ==
    /\ pc = "call"
    /\ callee = "calculate_metrics"
    /\ metrics_result' = calculate_metrics(sim_values, obs_values, "1")
    /\ pc' = "done"
    /\ UNCHANGED callee
    /\ UNCHANGED otherVars
    /\ UNCHANGED <<sim_values, obs_values, dateVars, dtypesVars, pairsVars, xvarVars, readerVars>>

NextMetrics == Call_calculate_metrics

SpecMetrics == InitMetrics /\ [][NextMetrics]_vars

-----------------------------------------------------------------------------
(* Claims about calculate_metrics (specification SpecMetrics) *)

MetricsCall == pc = "done" /\ metrics_result # Unset

\* The index positions, within the shorter length, where neither value is
\* missing.
ValidPositions ==
    { i \in 1..min(Len(sim_values), Len(obs_values)) :
        sim_values[i] # NaN /\ obs_values[i] # NaN }

\* C4: the call returns null when no index position within the shorter
\* length has both values present (also when an input is empty), and
\* otherwise a record whose n is the number of such positions.
C4_CountOfValidPairs ==
    MetricsCall =>
        IF ValidPositions = {}
        THEN metrics_result.kind = "None"
        ELSE /\ metrics_result.kind = "record"
             /\ metrics_result.n = Cardinality(ValidPositions)

\* Arrays of different lengths with a missing value on each side gave n = 1.
C4_Witness ==
    /\ MetricsCall
    /\ Len(sim_values) = 3 /\ Len(obs_values) = 2
    /\ sim_values[1] = NaN /\ obs_values[1] # NaN /\ sim_values[3] # NaN
    /\ metrics_result.kind = "record" /\ metrics_result.n = 1

IsZero(stat) == ~stat.null /\ stat.num = 0
IsOne(stat) == ~stat.null /\ ~stat.root /\ stat.num = stat.den

IdenticalArrays ==
    /\ MetricsCall
    /\ Len(sim_values) >= 1
    /\ sim_values = obs_values
    /\ \A i \in 1..Len(sim_values) : sim_values[i] # NaN

\* C5 as stated: identical arrays of numbers of length >= 1, constant ones
\* included, give RMSE = 0 and d-stat = 1.
C5_AsStated ==
    IdenticalArrays =>
        /\ metrics_result.kind = "record"
        /\ IsZero(metrics_result.RMSE)
        /\ IsOne(metrics_result.d_stat)

\* C5 as amended: identical arrays of numbers of length >= 1 give RMSE = 0,
\* and a d-stat that is 1 when the d-stat denominator, the sum of
\* (|sim - mean(obs)| + |obs - mean(obs)|)^2, is not zero and null when it is
\* zero, as it is for a length-1 array and for an array of one repeated
\* integer value.
C5_IdenticalArrays ==
    IdenticalArrays =>
        LET k == Len(sim_values)
            total == np_sum([i \in 1..k |-> obs_values[i][1]])
        IN  /\ metrics_result.kind = "record"
            /\ IsZero(metrics_result.RMSE)
            /\ IF \A i \in 1..k : k * obs_values[i][1] = total
               THEN metrics_result.d_stat.null
               ELSE IsOne(metrics_result.d_stat)

\* Identical non-constant arrays gave d-stat 1.
C5_Witness ==
    /\ IdenticalArrays
    /\ sim_values = <<Num(0), Num(1), Num(-1)>>
    /\ IsOne(metrics_result.d_stat)

\* The filtered pairs of the call, recomputed from the arguments.
FilteredObs == [i \in ValidPositions |-> obs_values[i][1]]
FilteredSim == [i \in ValidPositions |-> sim_values[i][1]]

RECURSIVE SumOver(_, _)
SumOver(f, S) ==
    IF S = {} THEN 0
    ELSE LET x == CHOOSE x \in S : TRUE IN f[x] + SumOver(f, S \ {x})

\* C6: in a returned record NRMSE is null exactly when the mean of the
\* filtered observed values is 0, d-stat is null exactly when the sum over
\* the filtered pairs of (|sim - mean(obs)| + |obs - mean(obs)|)^2 is 0
\* (every filtered sim and obs value equals the mean), and RMSE and n are
\* numbers in every case.
C6_NullIffZeroDivisor ==
    (MetricsCall /\ metrics_result.kind = "record") =>
        LET total == SumOver(FilteredObs, ValidPositions)
            k == Cardinality(ValidPositions)
        IN  /\ metrics_result.NRMSE.null <=> (total = 0)
            /\ metrics_result.d_stat.null <=>
                 (\A i \in ValidPositions :
                     k * FilteredObs[i] = total /\ k * FilteredSim[i] = total)
            /\ ~metrics_result.RMSE.null
            /\ metrics_result.n = k

\* A record with a null NRMSE (mean 0 from -1 and 1) and a numeric d-stat,
\* and one with a numeric NRMSE and a null d-stat.
C6_Witness ==
    /\ MetricsCall /\ metrics_result.kind = "record"
    /\ \/ /\ obs_values = <<Num(-1), Num(1)>>
          /\ metrics_result.NRMSE.null /\ ~metrics_result.d_stat.null
       \/ /\ obs_values = <<Num(1)>> /\ sim_values = <<Num(1)>>
          /\ ~metrics_result.NRMSE.null /\ metrics_result.d_stat.null

-----------------------------------------------------------------------------
(* A pandas DataFrame: a function from its column names to its columns.    *)
(* A column is [dtype, values]; values is a sequence of cells, one per row. *)

\* A cell: a Python str (its characters in s), a missing value (NaN, None,
\* <NA>), an integer v, or the decimal number mant / 10^scale.
Str(chars) == [t |-> "str", s |-> chars, mant |-> 0, scale |-> 0]
NA == [t |-> "na", s |-> <<>>, mant |-> 0, scale |-> 0]
IntCell(v) == [t |-> "int", s |-> <<>>, mant |-> v, scale |-> 0]
FloatCell(mantissa, sc) == [t |-> "float", s |-> <<>>, mant |-> mantissa, scale |-> sc]

Column(dtype, values) == [dtype |-> dtype, values |-> values]

\* Column names are str values: sequences of characters.
YEAR == <<"Y", "E", "A", "R">>
DOY == <<"D", "O", "Y">>
DATE == <<"D", "A", "T", "E">>
TRT == <<"T", "R", "T">>
TRNO == <<"T", "R", "N", "O">>
CWAD == <<"C", "W", "A", "D">>
RUN == <<"R", "U", "N">>

isna(cell) == cell.t = "na"

columns(frame) == DOMAIN frame

\* len(df)
nrows(frame) ==
    IF columns(frame) = {} THEN 0
    ELSE Len(frame[CHOOSE c \in columns(frame) : TRUE].values)

\* df.empty
empty(frame) == columns(frame) = {} \/ nrows(frame) = 0

\* Series.isna().all()
all_na(col) == \A i \in 1..Len(col.values) : isna(col.values[i])

\* df.dropna(axis=1, how='all')
dropna_columns(frame) ==
    [c \in { c \in columns(frame) : ~all_na(frame[c]) } |-> frame[c]]

RECURSIVE pow10(_)
pow10(k) == IF k = 0 THEN 1 ELSE 10 * pow10(k - 1)

\* The number a text denotes for pd.to_numeric: an optional "-", digits, and
\* at most one "." with digits on at least one side.  ok is FALSE for any
\* other text (errors="coerce" turns it into NaN); is_int says that the text is
\* an integer literal.
parse_number(chars) ==
    LET neg == Len(chars) > 0 /\ chars[1] = "-"
        body == IF neg THEN Tail(chars) ELSE chars
        dots == { i \in 1..Len(body) : body[i] = "." }
        sign == IF neg THEN -1 ELSE 1
        failed == [ok |-> FALSE, is_int |-> FALSE, mant |-> 0, scale |-> 0]
    IN  IF dots = {} THEN
            IF isdigit(body)
            THEN [ok |-> TRUE, is_int |-> TRUE,
                  mant |-> sign * int_of_digits(body), scale |-> 0]
            ELSE failed
        ELSE IF Cardinality(dots) = 1 THEN
            LET p == CHOOSE i \in dots : TRUE
                intp == SubSeq(body, 1, p - 1)
                fracp == SubSeq(body, p + 1, Len(body))
            IN  IF /\ (intp = <<>> \/ isdigit(intp))
                   /\ (fracp = <<>> \/ isdigit(fracp))
                   /\ ~(intp = <<>> /\ fracp = <<>>)
                THEN [ok |-> TRUE, is_int |-> FALSE,
                      mant |-> sign * int_of_digits(intp \o fracp),
                      scale |-> Len(fracp)]
                ELSE failed
        ELSE failed

\* pd.to_numeric(series, errors="coerce"): a str cell is parsed, a number
\* stays the number it is; int64 when every cell is an integer, else float64
\* with NaN for the missing cells and the texts that are no number.
to_numeric(col) ==
    LET n == Len(col.values)
        parsed == [i \in 1..n |->
                     IF col.values[i].t = "str" THEN parse_number(col.values[i].s)
                     ELSE IF col.values[i].t \in {"int", "float"}
                     THEN [ok |-> TRUE, is_int |-> col.values[i].t = "int",
                           mant |-> col.values[i].mant, scale |-> col.values[i].scale]
                     ELSE [ok |-> FALSE, is_int |-> FALSE, mant |-> 0, scale |-> 0]]
    IN  IF n > 0 /\ \A i \in 1..n : parsed[i].ok /\ parsed[i].is_int
        THEN Column("int64", [i \in 1..n |-> IntCell(parsed[i].mant)])
        ELSE Column("float64",
                    [i \in 1..n |-> IF parsed[i].ok
                                    THEN FloatCell(parsed[i].mant, parsed[i].scale)
                                    ELSE NA])

\* float.is_integer(), int.is_integer()
is_integer(cell) == cell.mant % pow10(cell.scale) = 0

\* Series.astype("Int64")
astype_Int64(col) ==
    Column("Int64",
           [i \in 1..Len(col.values) |->
              IF isna(col.values[i]) THEN NA
              ELSE IntCell(col.values[i].mant \div pow10(col.values[i].scale))])

\* Series.astype("float64")
astype_float64(col) ==
    Column("float64",
           [i \in 1..Len(col.values) |->
              IF isna(col.values[i]) THEN NA
              ELSE FloatCell(col.values[i].mant, col.values[i].scale)])

\* The text without its trailing "0" characters.
RECURSIVE rstrip_zeros(_)
rstrip_zeros(s) ==
    IF Len(s) > 0 /\ s[Len(s)] = "0" THEN rstrip_zeros(SubSeq(s, 1, Len(s) - 1)) ELSE s

\* str(x) of the float mant / 10^scale: the integer part, ".", and the
\* fraction digits without trailing zeros ("0" when there are none).
float_str(mant, scale) ==
    LET magnitude == IF mant < 0 THEN -mant ELSE mant
        fraction == rstrip_zeros(zero_pad(str_of_nat(magnitude % pow10(scale)), scale))
    IN  (IF mant < 0 THEN <<"-">> ELSE <<>>)
        \o str_of_nat(magnitude \div pow10(scale)) \o <<".">>
        \o (IF fraction = <<>> THEN <<"0">> ELSE fraction)

\* Series.astype(str): a str stays as it is, a number becomes its text, a
\* missing value becomes "nan"
astype_str(col) ==
    Column("object",
           [i \in 1..Len(col.values) |->
              IF col.values[i].t = "str" THEN col.values[i]
              ELSE IF col.values[i].t = "int" THEN Str(str_of_int(col.values[i].mant))
              ELSE IF col.values[i].t = "float"
              THEN Str(float_str(col.values[i].mant, col.values[i].scale))
              ELSE Str(<<"n", "a", "n">>)])

-----------------------------------------------------------------------------
(* data_processing.standardize_dtypes *)

\* Reserved names without the treatment column.
is_reserved_timestamp_only(name) == name \in {YEAR, DOY, DATE}

\* col in timestamp_cols or col in treatment_cols
is_reserved(name) == name \in {YEAR, DOY, DATE} \/ name \in {TRT}

\* nan_ratio < 0.1, nan_ratio being nan_count / n
below_threshold(nan_count, n) == 10 * nan_count < n

\* The else branch of the loop body for one column.  The lambda calls
\* x.is_integer() on Python objects: float has the method, int has it from
\* Python 3.12 on; on an older Python an int64 column raises AttributeError,
\* which "except Exception: pass" swallows, leaving the column as it was.
infer_numeric(col, has_int_is_integer) ==
    LET numeric_series == to_numeric(col)
        n == Len(col.values)
        nan_count == Cardinality({ i \in 1..n : isna(numeric_series.values[i]) })
    IN  IF below_threshold(nan_count, n) THEN
            IF numeric_series.dtype = "int64" /\ ~has_int_is_integer THEN col
            ELSE IF \A i \in 1..n :
                      isna(numeric_series.values[i])
                      \/ is_integer(numeric_series.values[i])
                 THEN astype_Int64(numeric_series)
                 ELSE astype_float64(numeric_series)
        ELSE col

standardize_dtypes(frame, has_int_is_integer) ==
    IF empty(frame) THEN frame
    ELSE
        LET kept == dropna_columns(frame)
        IN  [c \in columns(kept) |->
               IF is_reserved(c) THEN astype_str(kept[c])
               ELSE infer_numeric(kept[c], has_int_is_integer)]

-----------------------------------------------------------------------------
(* Inputs of the type standardiser *)

\* Most texts that are no number (or missing cells) at the head of a column.
MaxBad == 1
\* Longest run of one numeric text in a column.
MaxRun == 10
\* Most cells of a second numeric text at the end of a column.
MaxTail == 1

\* Texts that are numbers: integer literals (one with leading zeros, one
\* negative), a whole decimal and a fractional decimal.
NumericTexts ==
    { <<"1">>, <<"0", "0", "7">>, <<"-", "9", "9">>, <<"2", ".", "0">>,
      <<"1", ".", "5">> }

\* Cells pd.to_numeric turns into NaN: a word, and a missing value.
BadCells == { Str(<<"a", "b", "c">>), NA }

DtypeColumnNames == {YEAR, DOY, DATE, TRT, TRNO, CWAD}

repeat(x, k) == [i \in 1..k |-> x]

\* A frame with one drawn column: a bad cells, then b cells of one numeric
\* text, then c cells of another; with or without a second column RUN.
DtypeFrames ==
    { LET values == repeat(bad, a) \o repeat(Str(tb), b) \o repeat(Str(tc), c)
          n == Len(values)
      IN  IF with_run
          THEN (name :> Column("object", values))
               @@ (RUN :> Column("object", repeat(Str(<<"1">>), n)))
          ELSE (name :> Column("object", values)) :
        name \in DtypeColumnNames, bad \in BadCells, a \in 0..MaxBad,
        tb \in NumericTexts, b \in 0..MaxRun, tc \in NumericTexts,
        c \in 0..MaxTail, with_run \in BOOLEAN }

InitDtypes ==
    /\ pc = "call"
    /\ callee = "standardize_dtypes"
    /\ IdleOther
    /\ df \in DtypeFrames
    /\ int_is_integer \in BOOLEAN
    /\ dtypes_result = Unset
    /\ IdleDate /\ IdleMetrics /\ IdlePairs /\ IdleXvar /\ IdleReaders

Call_standardize_dtypes ==
    /\ pc = "call"
    /\ callee = "standardize_dtypes"
    /\ dtypes_result' = standardize_dtypes(df, int_is_integer)
    /\ pc' = "done"
    /\ UNCHANGED callee
    /\ UNCHANGED otherVars
    /\ UNCHANGED <<df, int_is_integer, dateVars, metricsVars, pairsVars, xvarVars, readerVars>>

NextDtypes == Call_standardize_dtypes

SpecDtypes == InitDtypes /\ [][NextDtypes]_vars

-----------------------------------------------------------------------------
(* Claims about standardize_dtypes (specification SpecDtypes) *)

DtypesCall == pc = "done" /\ dtypes_result # Unset

ReservedNames == {YEAR, DOY, DATE, TRT}

AllText(col) ==
    Len(col.values) > 0 /\ \A i \in 1..Len(col.values) : col.values[i].t = "str"

FailingCells(col) ==
    { i \in 1..Len(col.values) : ~parse_number(col.values[i].s).ok }

AllParsedWhole(col) ==
    \A i \in (1..Len(col.values)) \ FailingCells(col) :
        LET p == parse_number(col.values[i].s) IN p.mant % pow10(p.scale) = 0

\* C7 as stated: every non-reserved column of an all-text dataset becomes
\* numeric when fewer than 10% of its values fail numeric coercion (Int64 if
\* every parsed value is whole, float64 otherwise) and is left as text when
\* 10% or more fail.
C7_AsStated ==
    DtypesCall =>
        \A c \in columns(df) :
            (c \notin ReservedNames /\ \A d \in columns(df) : AllText(df[d])) =>
                /\ c \in columns(dtypes_result)
                /\ IF 10 * Cardinality(FailingCells(df[c])) < Len(df[c].values)
                   THEN dtypes_result[c].dtype =
                            (IF AllParsedWhole(df[c]) THEN "Int64" ELSE "float64")
                   ELSE dtypes_result[c] = df[c]

-----------------------------------------------------------------------------
(* Ordering of str values: Python compares code point by code point *)

CodePoints ==
    <<" ", "-", ".", "0", "1", "2", "3", "4", "5", "6", "7", "8", "9",
      "A", "B", "C", "D", "E", "F", "G", "H", "I", "J", "K", "L", "M",
      "N", "O", "P", "Q", "R", "S", "T", "U", "V", "W", "X", "Y", "Z",
      "a", "b", "c", "d", "e", "f", "g", "h", "i", "j", "k", "l", "m",
      "n", "o", "p", "q", "r", "s", "t", "u", "v", "w", "x", "y", "z">>

ord(c) == CHOOSE i \in 1..Len(CodePoints) : CodePoints[i] = c

\* a < b for two str values
RECURSIVE str_less(_, _)
str_less(a, b) ==
    IF Len(b) = 0 THEN FALSE
    ELSE IF Len(a) = 0 THEN TRUE
    ELSE IF a[1] # b[1] THEN ord(a[1]) < ord(b[1])
    ELSE str_less(Tail(a), Tail(b))

\* a < b for two tuples of str values
RECURSIVE tuple_less(_, _)
tuple_less(a, b) ==
    IF Len(b) = 0 THEN FALSE
    ELSE IF Len(a) = 0 THEN TRUE
    ELSE IF a[1] # b[1] THEN str_less(a[1], b[1])
    ELSE tuple_less(Tail(a), Tail(b))

\* sorted(set of tuples)
RECURSIVE sorted(_)
sorted(S) ==
    IF S = {} THEN <<>>
    ELSE LET least == CHOOSE x \in S : \A y \in S \ {x} : tuple_less(x, y)
         IN  <<least>> \o sorted(S \ {least})

-----------------------------------------------------------------------------
(* data_processing.get_evaluate_variable_pairs *)

\* Column names of the evaluation data are str values, character by character.
MetadataColumns ==
    { <<"R", "U", "N">>, <<"E", "X", "C", "O", "D", "E">>, <<"T", "R", "N", "O">>,
      <<"R", "N">>, <<"C", "R">> }

endswith(name, c) == Len(name) > 0 /\ name[Len(name)] = c

\* get_variable_info(base_name)[0]: the label of DATA.CDE, None without one
get_variable_label(info, name) ==
    IF name \in DOMAIN info THEN Some(info[name]) ELSE None

\* var_label if var_label else base_name
display_name(info, base_name) ==
    LET var_label == get_variable_label(info, base_name)
    IN  IF var_label # None /\ var_label[1] # <<>> THEN var_label[1] ELSE base_name

\* data[[col, measured_var]].dropna(): the rows with both values present
valid_rows(frame, col, measured_var) ==
    { i \in 1..nrows(frame) :
        ~isna(frame[col].values[i]) /\ ~isna(frame[measured_var].values[i]) }

\* A test that skips the pair as soon as one row is equal.
values_identical_any(frame, col, measured_var, rows) ==
    \E i \in rows : frame[col].values[i] = frame[measured_var].values[i]

\* (valid_data[col] == valid_data[measured_var]).all()
values_identical(frame, col, measured_var, rows) ==
    \A i \in rows : frame[col].values[i] = frame[measured_var].values[i]

\* Whether the loop body appends a pair for col.
is_pair(frame, col) ==
    /\ col \notin MetadataColumns
    /\ endswith(col, "S")
    /\ LET base_name == SubSeq(col, 1, Len(col) - 1)
           measured_var == base_name \o <<"M">>
       IN  /\ measured_var \in columns(frame)
           /\ ~(all_na(frame[col]) \/ all_na(frame[measured_var]))
           /\ LET rows == valid_rows(frame, col, measured_var)
              IN  /\ rows # {}
                  /\ ~values_identical(frame, col, measured_var, rows)

get_evaluate_variable_pairs(frame, info) ==
    sorted({ <<display_name(info, SubSeq(col, 1, Len(col) - 1)),
               col,
               SubSeq(col, 1, Len(col) - 1) \o <<"M">>>> :
             col \in { c \in columns(frame) : is_pair(frame, c) } })

-----------------------------------------------------------------------------
(* Inputs of the variable pairing *)

\* Most rows of the evaluation data.
MaxPairRows == 3

PairValues == {100, 200, 300}

PairCells == { IntCell(v) : v \in PairValues } \cup {NA}

CWADS == <<"C", "W", "A", "D", "S">>
CWADM == <<"C", "W", "A", "D", "M">>
HWAMS == <<"H", "W", "A", "M", "S">>
HWAMM == <<"H", "W", "A", "M", "M">>
LAIXS == <<"L", "A", "I", "X", "S">>

\* The simulated column 100, 200, 300, ... with missing values at the rows
\* of gaps.
ramp(n, gaps) == [i \in 1..n |-> IF i \in gaps THEN NA ELSE IntCell(100 * i)]

\* Evaluation data with the treatment column, a simulated column LAIXS that
\* has no measured sibling, CWADS (a ramp with gaps) and/or CWADM (any drawn
\* values), and with or without a second pair HWAMS/HWAMM whose values
\* differ.
PairFrames ==
    UNION { { LET drawn == [c \in names |-> Column("float64", IF c = CWADS THEN s ELSE m)]
                  fixed == (TRNO :> Column("int64", repeat(IntCell(1), n)))
                           @@ (LAIXS :> Column("float64", repeat(IntCell(100), n)))
                  second == (HWAMS :> Column("float64", repeat(IntCell(100), n)))
                            @@ (HWAMM :> Column("float64", repeat(IntCell(200), n)))
              IN  IF with_second THEN drawn @@ fixed @@ second ELSE drawn @@ fixed :
                s \in { ramp(n, gaps) : gaps \in SUBSET (1..n) },
                m \in [1..n -> PairCells],
                names \in { {CWADS, CWADM}, {CWADS}, {CWADM} },
                with_second \in BOOLEAN } :
            n \in 0..MaxPairRows }

\* DATA.CDE without the codes, and with labels that reverse their order.
CodeDictionaries ==
    { <<>>,
      (<<"C", "W", "A", "D">> :> <<"T", "o", "p", "s">>)
      @@ (<<"H", "W", "A", "M">> :> <<"G", "r", "a", "i", "n">>) }

InitPairs ==
    /\ pc = "call"
    /\ callee = "get_evaluate_variable_pairs"
    /\ IdleOther
    /\ data \in PairFrames
    /\ variable_info \in CodeDictionaries
    /\ pairs_result = Unset
    /\ IdleDate /\ IdleMetrics /\ IdleDtypes /\ IdleXvar /\ IdleReaders

Call_get_evaluate_variable_pairs ==
    /\ pc = "call"
    /\ callee = "get_evaluate_variable_pairs"
    /\ pairs_result' = get_evaluate_variable_pairs(data, variable_info)
    /\ pc' = "done"
    /\ UNCHANGED callee
    /\ UNCHANGED otherVars
    /\ UNCHANGED <<data, variable_info, dateVars, metricsVars, dtypesVars, xvarVars, readerVars>>

NextPairs == Call_get_evaluate_variable_pairs

SpecPairs == InitPairs /\ [][NextPairs]_vars

-----------------------------------------------------------------------------
(* Claims about get_evaluate_variable_pairs (specification SpecPairs) *)

PairsCall == pc = "done"

\* The condition C9 gives for the column sim_col = X + 'S': the sibling
\* X + 'M' exists, neither column is entirely missing, some row has both
\* values, and some row with both values has sim # obs.
C9_Condition(sim_col) ==
    LET meas_col == SubSeq(sim_col, 1, Len(sim_col) - 1) \o <<"M">>
        n == Len(data[sim_col].values)
    IN  /\ meas_col \in DOMAIN data
        /\ \E i \in 1..n : data[sim_col].values[i].t # "na"
        /\ \E i \in 1..n : data[meas_col].values[i].t # "na"
        /\ \E i \in 1..n :
             data[sim_col].values[i].t # "na" /\ data[meas_col].values[i].t # "na"
        /\ \E i \in 1..n :
             /\ data[sim_col].values[i].t # "na" /\ data[meas_col].values[i].t # "na"
             /\ data[sim_col].values[i].mant # data[meas_col].values[i].mant

\* C9: the returned list holds a pair (label, X+'S', X+'M') for a column
\* X+'S' exactly when the condition holds, and holds nothing else; so
\* CWADS = CWADM = [100, 200, 300] gives no pair for CWAD.
C9_PairsExactlyWhenDiscriminating ==
    PairsCall =>
        /\ \A c \in DOMAIN data :
             (Len(c) > 0 /\ c[Len(c)] = "S") =>
                ((\E k \in 1..Len(pairs_result) : pairs_result[k][2] = c)
                    <=> C9_Condition(c))
        /\ \A k \in 1..Len(pairs_result) :
             /\ pairs_result[k][2] \in DOMAIN data
             /\ Len(pairs_result[k][2]) > 0
             /\ pairs_result[k][2][Len(pairs_result[k][2])] = "S"
             /\ pairs_result[k][3] =
                  SubSeq(pairs_result[k][2], 1, Len(pairs_result[k][2]) - 1) \o <<"M">>

\* CWADS = CWADM = [100, 200, 300] gave no pair for CWAD while the differing
\* HWAMS/HWAMM gave one.
C9_Witness ==
    /\ PairsCall
    /\ CWADS \in DOMAIN data /\ CWADM \in DOMAIN data
    /\ data[CWADS].values = <<IntCell(100), IntCell(200), IntCell(300)>>
    /\ data[CWADM].values = data[CWADS].values
    /\ Len(pairs_result) = 1
    /\ pairs_result[1][2] = HWAMS

-----------------------------------------------------------------------------
(* pandas datetimes: a Timestamp cell holds the proleptic ordinal of its day *)

TsCell(ordinal) == [t |-> "ts", s |-> <<>>, mant |-> ordinal, scale |-> 0]

days_before_year(y) ==
    (y - 1) * 365 + ((y - 1) \div 4) - ((y - 1) \div 100) + ((y - 1) \div 400)

DaysBeforeMonth == <<0, 31, 59, 90, 120, 151, 181, 212, 243, 273, 304, 334>>

days_in_month(y, mo) ==
    IF mo = 2 THEN (IF is_leap(y) THEN 29 ELSE 28)
    ELSE IF mo \in {4, 6, 9, 11} THEN 30 ELSE 31

toordinal(y, mo, d) ==
    days_before_year(y) + DaysBeforeMonth[mo]
    + (IF mo > 2 /\ is_leap(y) THEN 1 ELSE 0) + d

\* The day a text "YYYY-MM-DD" denotes; NaT for every other text
\* (errors="coerce").
parse_iso_date(chars) ==
    IF /\ Len(chars) = 10 /\ chars[5] = "-" /\ chars[8] = "-"
       /\ isdigit(SubSeq(chars, 1, 4)) /\ isdigit(SubSeq(chars, 6, 7))
       /\ isdigit(SubSeq(chars, 9, 10))
    THEN LET y == int_of_digits(SubSeq(chars, 1, 4))
             mo == int_of_digits(SubSeq(chars, 6, 7))
             d == int_of_digits(SubSeq(chars, 9, 10))
         IN  IF y >= 1 /\ mo \in 1..12 /\ d \in 1..days_in_month(y, mo)
             THEN TsCell(toordinal(y, mo, d))
             ELSE NA
    ELSE NA

\* pd.to_datetime(series, errors="coerce") of a column of Timestamps, texts
\* and missing values
to_datetime(col) ==
    Column("datetime64[ns]",
           [i \in 1..Len(col.values) |->
              IF col.values[i].t = "ts" THEN col.values[i]
              ELSE IF col.values[i].t = "str" THEN parse_iso_date(col.values[i].s)
              ELSE NA])

year_of_ordinal(ordinal) ==
    CHOOSE y \in (ordinal \div 366)..((ordinal \div 365) + 1) :
        days_before_year(y) < ordinal /\ ordinal <= days_before_year(y + 1)

\* Series.dt.dayofyear
dt_dayofyear(col) ==
    LET values == [i \in 1..Len(col.values) |->
                     IF isna(col.values[i]) THEN NA
                     ELSE IntCell(col.values[i].mant
                                  - days_before_year(year_of_ordinal(col.values[i].mant)))]
    IN  Column(IF \E i \in 1..Len(values) : isna(values[i]) THEN "float64" ELSE "int64",
               values)

\* Series.min(): the earliest Timestamp, NaT when there is none
series_min(col) ==
    LET present == { i \in 1..Len(col.values) : ~isna(col.values[i]) }
    IN  IF present = {} THEN NA
        ELSE col.values[CHOOSE i \in present :
                          \A j \in present : col.values[i].mant <= col.values[j].mant]

\* (series - start_date).dt.days
days_since(col, start_date) ==
    LET values == [i \in 1..Len(col.values) |->
                     IF isna(col.values[i]) \/ isna(start_date) THEN NA
                     ELSE IntCell(col.values[i].mant - start_date.mant)]
    IN  Column(IF \E i \in 1..Len(values) : isna(values[i]) THEN "float64" ELSE "int64",
               values)

\* series.dropna().unique(): the present values in order of first appearance
RECURSIVE dropna_unique(_)
dropna_unique(values) ==
    IF Len(values) = 0 THEN <<>>
    ELSE LET front == dropna_unique(SubSeq(values, 1, Len(values) - 1))
             last == values[Len(values)]
         IN  IF isna(last) \/ \E i \in 1..Len(front) : front[i] = last
             THEN front
             ELSE Append(front, last)

\* dict(zip(keys, vals)) for keys without repetition
dict_zip(keys, vals) ==
    LET k == min(Len(keys), Len(vals))
    IN  [key \in { keys[i] : i \in 1..k } |->
           vals[CHOOSE i \in 1..k : keys[i] = key]]

\* series.dropna().map(mapping), put back on the rows it came from: a missing
\* date and a date that is no key give a missing value
map_dates(col, mapping) ==
    Column("float64",
           [i \in 1..Len(col.values) |->
              IF ~isna(col.values[i]) /\ col.values[i] \in DOMAIN mapping
              THEN mapping[col.values[i]]
              ELSE NA])

\* fillna(method="ffill")
RECURSIVE ffill_values(_)
ffill_values(values) ==
    IF Len(values) = 0 THEN <<>>
    ELSE LET front == ffill_values(SubSeq(values, 1, Len(values) - 1))
             last == values[Len(values)]
         IN  Append(front,
                    IF isna(last) /\ Len(front) > 0 THEN front[Len(front)] ELSE last)

\* A forward fill that fills nothing.
ffill_nothing(col) == col

ffill(col) == Column(col.dtype, ffill_values(col.values))

\* df[name] = col
with_column(frame, name, col) ==
    [c \in columns(frame) \cup {name} |-> IF c = name THEN col ELSE frame[c]]

\* str.upper()
upper(name) ==
    [i \in 1..Len(name) |->
       IF \E k \in 40..65 : CodePoints[k] = name[i]
       THEN CodePoints[ord(name[i]) - 26]
       ELSE name[i]]

-----------------------------------------------------------------------------
(* data_processing.handle_missing_xvar *)

DAP == <<"D", "A", "P">>
DAS == <<"D", "A", "S">>

\* What a call did: it returned value, or it raised (a KeyError of a missing
\* column, the TypeError of line 132); sim is the
\* caller's sim_data after the call.  Frames are optional: None or Some(frame).
Returned(value, sim) == [kind |-> "returned", value |-> value, sim |-> sim]
Raised(sim) == [kind |-> "raised", value |-> None, sim |-> sim]

\* frame["DATE"] = pd.to_datetime(frame["DATE"], errors="coerce")
convert_DATE(frame) ==
    IF DATE \in columns(frame)
    THEN with_column(frame, DATE, to_datetime(frame[DATE]))
    ELSE frame

\* Lines 127-133: the sequence of last resort, the forward fill, the return.
\* Series.fillna takes method="ffill" in pandas before 3.0, where the fill
\* reaches the frame's own column; pandas 3.0 removed the argument and the
\* call raises a TypeError.
finish(frame, xv, sim, has_fillna_method) ==
    LET with_x == IF xv \notin columns(frame)
                  THEN with_column(frame, xv,
                           Column("int64", [i \in 1..nrows(frame) |-> IntCell(i - 1)]))
                  ELSE frame
    IN  IF has_fillna_method
        THEN Returned(Some(with_column(with_x, xv, ffill(with_x[xv]))), sim)
        ELSE Raised(sim)

\* An early return that forward-fills the column it found.
return_existing_filled(frame, xv, sim) == finish(frame, xv, sim, TRUE)

\* Lines 96-97: x_var is a column already: return obs_data
return_existing(frame, xv, sim) == Returned(Some(frame), sim)

handle_missing_xvar(obs, xv, sim, has_fillna_method) ==
    IF obs = None \/ empty(obs[1]) THEN Returned(obs, sim)
    ELSE
        LET obs1 == convert_DATE(obs[1])
            sim1 == IF sim # None THEN Some(convert_DATE(sim[1])) ELSE None
        IN  IF xv \in columns(obs1) THEN return_existing(obs1, xv, sim1)
            ELSE IF upper(xv) \in {DAP, DOY, DAS} THEN
                IF DATE \in columns(obs1) THEN
                    IF upper(xv) = DOY
                    THEN finish(with_column(obs1, xv, dt_dayofyear(obs1[DATE])),
                                xv, sim1, has_fillna_method)
                    ELSE IF sim1 # None /\ DATE \notin columns(sim1[1])
                    THEN Raised(sim1)
                    ELSE LET start_date ==
                                 IF sim1 # None
                                 THEN series_min(to_datetime(sim1[1][DATE]))
                                 ELSE series_min(obs1[DATE])
                         IN  finish(with_column(obs1, xv,
                                                days_since(obs1[DATE], start_date)),
                                    xv, sim1, has_fillna_method)
                ELSE Returned(Some(obs1), sim1)
            ELSE IF sim1 # None /\ ~empty(sim1[1]) THEN
                IF DATE \in columns(sim1[1]) THEN
                    IF DATE \notin columns(obs1) \/ xv \notin columns(sim1[1])
                    THEN Raised(sim1)
                    ELSE LET sim_dates == dropna_unique(to_datetime(sim1[1][DATE]).values)
                             date_to_xvar ==
                                 dict_zip(sim_dates, dropna_unique(sim1[1][xv].values))
                         IN  finish(with_column(obs1, xv,
                                                map_dates(to_datetime(obs1[DATE]),
                                                          date_to_xvar)),
                                    xv, sim1, has_fillna_method)
                ELSE finish(obs1, xv, sim1, has_fillna_method)
            ELSE finish(obs1, xv, sim1, has_fillna_method)

-----------------------------------------------------------------------------
(* Inputs of the x-axis reconciler *)

\* Most rows of the observed data.
MaxObsRows == 2
\* Most rows of the simulated data.
MaxSimRows == 2

LAID == <<"L", "A", "I", "D">>

XVars == { DAP, DOY, LAID, <<"d", "a", "p">> }

\* The other spelling of a name: x_var with the case of its letters swapped.
swapcase(name) ==
    [i \in 1..Len(name) |->
       IF ord(name[i]) \in 40..65 THEN CodePoints[ord(name[i]) - 26]
       ELSE IF ord(name[i]) \in 14..39 THEN CodePoints[ord(name[i]) + 26]
       ELSE name[i]]

Day1 == <<"1", "9", "9", "1", "-", "0", "3", "-", "0", "1">>
Day2 == <<"1", "9", "9", "1", "-", "0", "3", "-", "0", "2">>
Day4 == <<"1", "9", "9", "1", "-", "0", "3", "-", "0", "4">>

\* DATE columns of the observed data: Timestamps and NaT, or texts (what
\* read_observed_data produces): a date in every row, or a word in
\* every row.
ObsDateColumns(n) ==
    { Column("datetime64[ns]", v) :
        v \in [1..n -> { parse_iso_date(Day1), parse_iso_date(Day2), NA }] }
    \cup { Column("object", repeat(Str(Day1), n)),
           Column("object", repeat(Str(<<"b", "a", "d">>), n)) }

\* A column under the name x_var or under its other spelling.
ObsExtraColumns(n) ==
    { Column("float64", v) : v \in [1..n -> { NA, IntCell(5) }] }

\* Observed data: a TRT column, with or without DATE, with or without a
\* column named like x_var; or None.
ObsFrames(xv) ==
    {None} \cup
    UNION { { Some(f @@ (TRT :> Column("object", repeat(Str(<<"1">>), n)))) :
                f \in { <<>> }
                      \cup { (DATE :> d) : d \in ObsDateColumns(n) }
                      \cup { (name :> e) : name \in {xv, swapcase(xv)},
                                           e \in ObsExtraColumns(n) }
                      \cup { (DATE :> d) @@ (name :> e) :
                               d \in ObsDateColumns(n),
                               name \in {xv, swapcase(xv)},
                               e \in ObsExtraColumns(n) } } :
            n \in 0..MaxObsRows }

\* Simulated data as the caller builds it: a TRT column, with or without a
\* DATE column of "%Y-%m-%d" texts, and, for an x_var that is no derived time
\* variable, with or without a column x_var; or None.
SimFrames(xv) ==
    {None} \cup
    UNION { { Some(f @@ (TRT :> Column("object", repeat(Str(<<"1">>), m)))) :
                f \in { <<>> }
                      \cup { (DATE :> Column("object", d)) :
                               d \in [1..m -> { Str(Day1), Str(Day4) }] }
                      \cup (IF upper(xv) \in {DAP, DOY, DAS} THEN {}
                            ELSE { (xv :> Column("float64", x)) :
                                     x \in [1..m -> { NA, IntCell(5), IntCell(7) }] }
                                 \cup { (DATE :> Column("object", d))
                                        @@ (xv :> Column("float64", x)) :
                                          d \in [1..m -> { Str(Day1), Str(Day4) }],
                                          x \in [1..m -> { NA, IntCell(5), IntCell(7) }] }) } :
            m \in 0..MaxSimRows }

InitXvar ==
    /\ pc = "call"
    /\ callee = "handle_missing_xvar"
    /\ IdleOther
    /\ x_var \in XVars
    /\ obs_data \in ObsFrames(x_var)
    /\ sim_data \in SimFrames(x_var)
    /\ fillna_method \in BOOLEAN
    /\ xvar_result = Unset
    /\ IdleDate /\ IdleMetrics /\ IdleDtypes /\ IdlePairs /\ IdleReaders

\* The call; line 93 writes the converted DATE column into the caller's
\* sim_data, obs_data is copied first and stays as it was.
Call_handle_missing_xvar ==
    /\ pc = "call"
    /\ callee = "handle_missing_xvar"
    /\ LET r == handle_missing_xvar(obs_data, x_var, sim_data, fillna_method)
       IN  /\ xvar_result' = [kind |-> r.kind, value |-> r.value]
           /\ sim_data' = r.sim
    /\ pc' = "done"
    /\ UNCHANGED callee
    /\ UNCHANGED otherVars
    /\ UNCHANGED <<obs_data, x_var, fillna_method, dateVars, metricsVars, dtypesVars,
                   pairsVars, readerVars>>

NextXvar == Call_handle_missing_xvar

SpecXvar == InitXvar /\ [][NextXvar]_vars

-----------------------------------------------------------------------------
(* Claims about handle_missing_xvar (specification SpecXvar) *)

\* The call ran on observed data that has a column named x_var.
XvarPresentCall ==
    /\ pc = "done"
    /\ obs_data # None
    /\ x_var \in DOMAIN obs_data[1]

\* C10 as stated: when the observed data has a column named exactly x_var
\* the call returns a dataset equal to it: same columns, same values in
\* every column, DATE included, and no forward fill.
C10_AsStated ==
    XvarPresentCall =>
        /\ xvar_result.kind = "returned"
        /\ xvar_result.value = obs_data

\* C10 as amended: when the observed data has a column named exactly x_var
\* the call returns a dataset with the same columns, in which every column
\* other than DATE, x_var included, has the input's values (no forward
\* fill), and in which DATE is the input's DATE converted to datetimes:
\* a Timestamp stays as it is, a text becomes the date it denotes or NaT.
\* So the result equals the input when DATE is absent or already holds
\* datetimes.
C10_EqualUpToDateConversion ==
    XvarPresentCall =>
        /\ xvar_result.kind = "returned"
        /\ xvar_result.value # None
        /\ DOMAIN xvar_result.value[1] = DOMAIN obs_data[1]
        /\ \A c \in DOMAIN obs_data[1] :
             LET before == obs_data[1][c]
                 after == xvar_result.value[1][c]
             IN  IF c # DATE THEN after = before
                 ELSE /\ Len(after.values) = Len(before.values)
                      /\ \A i \in 1..Len(before.values) :
                           /\ after.values[i].t \in {"ts", "na"}
                           /\ before.values[i].t \in {"ts", "na"} =>
                                  after.values[i] = before.values[i]
                      /\ (\A i \in 1..Len(before.values) :
                             before.values[i].t \in {"ts", "na"}) =>
                             after.values = before.values

\* Observed data with a DATE column of texts and a DAP column whose second
\* value is missing came back with DAP untouched, the missing value still
\* missing, and DATE converted.
C10_Witness ==
    /\ XvarPresentCall
    /\ x_var = DAP
    /\ DATE \in DOMAIN obs_data[1]
    /\ obs_data[1][DATE].values = <<Str(Day1), Str(Day1)>>
    /\ obs_data[1][DAP].values = <<IntCell(5), NA>>
    /\ xvar_result.kind = "returned"
    /\ xvar_result.value[1][DAP].values = <<IntCell(5), NA>>
    /\ xvar_result.value[1][DATE].values[1].t = "ts"

\* The call ran on observed data with rows, with a pandas before 3.0.
XvarCall ==
    /\ pc = "done"
    /\ fillna_method
    /\ obs_data # None
    /\ ~empty(obs_data[1])

\* C11 as stated: when the observed data has no column named exactly x_var
\* but has one whose name equals x_var when case is ignored, the call
\* returns a dataset with a column named exactly x_var that holds that
\* column's values.
C11_AsStated ==
    XvarCall /\ x_var \notin DOMAIN obs_data[1] =>
        \A c \in DOMAIN obs_data[1] :
            upper(c) = upper(x_var) =>
                /\ xvar_result.kind = "returned"
                /\ x_var \in DOMAIN xvar_result.value[1]
                /\ xvar_result.value[1][x_var].values = obs_data[1][c].values

\* The dates of the observed rows, as datetimes.
ObsDates == to_datetime(obs_data[1][DATE]).values

\* C12 as stated: when x_var is DAP or DAS and the observed data has a DATE
\* column and no x_var column, the call sets x_var in every row to the whole
\* number of days from the start date to the row's date, the start date
\* being the earliest simulated date when simulated data is supplied and
\* the earliest observed date otherwise.
C12_AsStated ==
    ( /\ XvarCall
      /\ upper(x_var) \in {DAP, DAS}
      /\ DATE \in DOMAIN obs_data[1]
      /\ x_var \notin DOMAIN obs_data[1] ) =>
        /\ xvar_result.kind = "returned"
        /\ x_var \in DOMAIN xvar_result.value[1]
        /\ \E start_date \in { ObsDates[i] : i \in 1..Len(ObsDates) }
                             \cup (IF sim_data # None /\ DATE \in DOMAIN sim_data[1]
                                   THEN { sim_data[1][DATE].values[j] :
                                            j \in 1..Len(sim_data[1][DATE].values) }
                                   ELSE {}) :
             /\ ~isna(start_date)
             /\ start_date = IF sim_data # None
                             THEN series_min(sim_data[1][DATE])
                             ELSE series_min(to_datetime(obs_data[1][DATE]))
             /\ \A i \in 1..Len(ObsDates) :
                  /\ ~isna(ObsDates[i])
                  /\ xvar_result.value[1][x_var].values[i]
                         = IntCell(ObsDates[i].mant - start_date.mant)

\* The values the simulated data holds in column x_var on the date of
\* observed row i; a missing value when the date is not a simulated date.
SimValuesOn(i) ==
    LET on_date == { j \in 1..Len(sim_data[1][DATE].values) :
                       /\ ~isna(ObsDates[i])
                       /\ sim_data[1][DATE].values[j] = ObsDates[i] }
    IN  IF on_date = {} THEN {NA}
        ELSE { sim_data[1][x_var].values[j] : j \in on_date }

\* C13 as stated: when x_var is no derived-time variable and the simulated
\* data has rows, the DATE column and x_var, every observed row whose date is a
\* simulated date gets the x_var value the simulated data holds on that
\* date and every other observed row gets a missing value, before the
\* forward fill.
C13_AsStated ==
    ( /\ XvarCall
      /\ upper(x_var) \notin {DAP, DOY, DAS}
      /\ x_var \notin DOMAIN obs_data[1]
      /\ DATE \in DOMAIN obs_data[1]
      /\ sim_data # None
      /\ ~empty(sim_data[1])
      /\ DATE \in DOMAIN sim_data[1]
      /\ x_var \in DOMAIN sim_data[1] ) =>
        /\ xvar_result.kind = "returned"
        /\ x_var \in DOMAIN xvar_result.value[1]
        /\ \E before_fill \in [1..Len(ObsDates) -> {NA, IntCell(5), IntCell(7)}] :
             /\ \A i \in 1..Len(ObsDates) : before_fill[i] \in SimValuesOn(i)
             /\ xvar_result.value[1][x_var].values = ffill_values(before_fill)

\* C14 as stated: for observed data with rows, every x_var and every
\* simulated data, the call returns, without raising, a dataset that has a
\* column named x_var; when the observed data has no such column, x_var is
\* not derived from DATE and the simulated data cannot supply it (it is
\* absent, empty, or without DATE or x_var), the column is 0..n-1.
C14_AsStated ==
    XvarCall =>
        /\ xvar_result.kind = "returned"
        /\ x_var \in DOMAIN xvar_result.value[1]
        /\ ( /\ x_var \notin DOMAIN obs_data[1]
             /\ ~(upper(x_var) \in {DAP, DOY, DAS} /\ DATE \in DOMAIN obs_data[1])
             /\ \/ sim_data = None
                \/ empty(sim_data[1])
                \/ DATE \notin DOMAIN sim_data[1]
                \/ x_var \notin DOMAIN sim_data[1] ) =>
               \A i \in 1..Len(xvar_result.value[1][x_var].values) :
                   xvar_result.value[1][x_var].values[i] = IntCell(i - 1)

\* The call ran on observed data with rows and no column x_var and returned
\* a dataset with a column x_var: it derived or synthesized the column.
XvarDerived ==
    /\ pc = "done"
    /\ obs_data # None
    /\ ~empty(obs_data[1])
    /\ x_var \notin DOMAIN obs_data[1]
    /\ xvar_result.kind = "returned"
    /\ x_var \in DOMAIN xvar_result.value[1]

\* C15: whenever the call derives or synthesizes the x_var column, the
\* returned column has no missing value in a row that follows a row with a
\* value, and a row whose value was derived from a missing date holds the
\* value of the row before it: every missing entry took the nearest earlier
\* value.
C15_ForwardFilled ==
    XvarDerived =>
        LET column == xvar_result.value[1][x_var].values
        IN  /\ \A i \in 2..Len(column) : ~isna(column[i - 1]) => ~isna(column[i])
            /\ ( upper(x_var) \in {DAP, DOY, DAS} /\ DATE \in DOMAIN obs_data[1] ) =>
                   \A i \in 2..Len(column) :
                       isna(ObsDates[i]) => column[i] = column[i - 1]

\* DOY was derived from the dates 1 March 1991 and NaT: the second row took
\* the first row's day of the year, 60.
C15_Witness ==
    /\ XvarDerived
    /\ x_var = DOY
    /\ DATE \in DOMAIN obs_data[1]
    /\ obs_data[1][DATE].values = <<parse_iso_date(Day1), NA>>
    /\ xvar_result.value[1][DOY].values = <<IntCell(60), IntCell(60)>>

-----------------------------------------------------------------------------
(* Text of a file: a sequence of lines, a line a str without its line end *)

\* str.startswith
startswith(s, prefix) ==
    Len(s) >= Len(prefix) /\ SubSeq(s, 1, Len(prefix)) = prefix

\* str.lstrip("@")
RECURSIVE lstrip_at(_)
lstrip_at(s) == IF Len(s) > 0 /\ s[1] = "@" THEN lstrip_at(Tail(s)) ELSE s

\* str.split(): the runs of characters between blanks
RECURSIVE split(_)
split(s) ==
    LET t == lstrip(s)
        blanks == { i \in 1..Len(t) : t[i] = " " }
        stop == IF blanks = {} THEN Len(t) + 1
                ELSE CHOOSE i \in blanks : \A j \in blanks : i <= j
    IN  IF Len(t) = 0 THEN <<>>
        ELSE <<SubSeq(t, 1, stop - 1)>> \o split(SubSeq(t, stop, Len(t)))

\* line[a:b], a and b counted from 0
slice(s, a, b) == SubSeq(s, a + 1, min(b, Len(s)))

\* line.strip().upper().startswith("TREATMENT")
is_treatment_line(line) == startswith(upper(strip(line)), <<"T", "R", "E", "A", "T", "M", "E", "N", "T">>)

\* The index of the first line that satisfies test, 0 when there is none:
\* next((i for i, line in enumerate(lines) if ...), None)
first_index(lines, test(_)) ==
    IF \E i \in 1..Len(lines) : test(lines[i])
    THEN CHOOSE i \in 1..Len(lines) :
             test(lines[i]) /\ \A j \in 1..(i - 1) : ~test(lines[j])
    ELSE 0

max_len(rows) ==
    IF Len(rows) = 0 THEN 0
    ELSE CHOOSE m \in { Len(rows[i]) : i \in 1..Len(rows) } :
             \A i \in 1..Len(rows) : Len(rows[i]) <= m

-----------------------------------------------------------------------------
(* dssat_io.process_treatment_block and dssat_io.read_file *)

\* What a reader did: the dataset it returned (None, or Some(frame)), how
\* many times it called logger.error, and that no exception left it.
Read(value, errors) == [value |-> value, errors |-> errors, raised |-> FALSE]

starts_with_at(line) == startswith(line, <<"@">>)

\* if line.strip() and not line.startswith("*")
is_data_line(line) == Len(strip(line)) > 0 /\ ~startswith(line, <<"*">>)

\* pd.DataFrame(data_lines, columns=headers): rows shorter than the longest
\* row are filled with None; the longest row must be as long as headers, or
\* the constructor raises ValueError.  Defined for headers without repeats.
DataFrame(data_lines, headers) ==
    [c \in { headers[k] : k \in 1..Len(headers) } |->
       LET k == CHOOSE k \in 1..Len(headers) : headers[k] = c
       IN  Column("object",
                  [i \in 1..Len(data_lines) |->
                     IF k <= Len(data_lines[i]) THEN Str(data_lines[i][k]) ELSE NA])]

\* A treatment number read from the first token, the word itself.
treatment_number_first_token(tokens) == tokens[1]

\* trt_num = treatment_line.split()[1]
treatment_number(tokens) == tokens[2]

\* Lines 253-260: df["TRT"] = trt_num when the block has a TREATMENT line
\* with a second token (IndexError: pass).
tag_treatment(frame, lines) ==
    LET t == first_index(lines, is_treatment_line)
    IN  IF t # 0 /\ Len(split(lines[t])) >= 2
        THEN with_column(frame, TRT,
                 Column("object",
                        repeat(Str(treatment_number(split(lines[t]))), nrows(frame))))
        ELSE frame

process_treatment_block(lines) ==
    LET header_index == first_index(lines, starts_with_at)
    IN  IF header_index = 0 THEN Read(None, 0)
        ELSE
            LET headers == split(strip(lstrip_at(lines[header_index])))
                kept == SelectSeq(SubSeq(lines, header_index + 1, Len(lines)),
                                  is_data_line)
                data_lines == [i \in 1..Len(kept) |-> split(strip(kept[i]))]
            IN  IF Len(data_lines) = 0 THEN Read(None, 0)
                ELSE IF max_len(data_lines) # Len(headers) THEN Read(None, 1)
                ELSE Read(Some(tag_treatment(DataFrame(data_lines, headers), lines)), 0)

\* Blocks that would each reach back to the top of the file, so that a block
\* sees the header lines above its TREATMENT line.
blocks_from_top(lines) ==
    LET treatment_indices == { i \in 1..Len(lines) : is_treatment_line(lines[i]) }
        starts == SelectSeq([i \in 1..Len(lines) |-> i],
                            LAMBDA i : i \in treatment_indices)
    IN  IF treatment_indices = {} THEN <<lines>>
        ELSE [k \in 1..Len(starts) |->
                SubSeq(lines, 1,
                       IF k < Len(starts) THEN starts[k + 1] - 1 ELSE Len(lines))]

\* The blocks of the multiple treatment format: from each TREATMENT line to
\* the line before the next one; the whole file when it has no such line.
blocks(lines) ==
    LET treatment_indices == { i \in 1..Len(lines) : is_treatment_line(lines[i]) }
        starts == SelectSeq([i \in 1..Len(lines) |-> i],
                            LAMBDA i : i \in treatment_indices)
    IN  IF treatment_indices = {} THEN <<lines>>
        ELSE [k \in 1..Len(starts) |->
                SubSeq(lines, starts[k],
                       IF k < Len(starts) THEN starts[k + 1] - 1 ELSE Len(lines))]

\* pd.concat(data_frames, ignore_index=True): the union of the columns, the
\* rows of the frames one after another, NaN where a frame lacks a column
RECURSIVE concat_values(_, _)
concat_values(frames, c) ==
    IF Len(frames) = 0 THEN <<>>
    ELSE (IF c \in columns(frames[1]) THEN frames[1][c].values
          ELSE repeat(NA, nrows(frames[1])))
         \o concat_values(Tail(frames), c)

concat(frames) ==
    [c \in UNION { columns(frames[k]) : k \in 1..Len(frames) } |->
       Column("object", concat_values(frames, c))]

\* Lines 218-224: DATE from YEAR and DOY.zfill(3) with format "%Y%j",
\* errors="coerce"
with_DATE(frame) ==
    IF YEAR \in columns(frame) /\ DOY \in columns(frame)
    THEN with_column(frame, DATE,
             Column("datetime64[ns]",
                    [i \in 1..nrows(frame) |->
                       LET parsed == to_datetime_Yj(
                               astype_str(frame[YEAR]).values[i].s
                               \o zero_pad(astype_str(frame[DOY]).values[i].s, 3))
                       IN  IF parsed.kind = "date"
                           THEN TsCell(days_before_year(parsed.year) + parsed.dayofyear)
                           ELSE NA]))
    ELSE frame

\* Line 228 with an error message on the way.
return_no_data_logged(errors) == Read(None, errors + 1)

\* Line 228: no block gave a dataset: return None
return_no_data(errors) == Read(None, errors)

\* file is None when the path does not exist, else the lines of the file.
read_file(file, has_int_is_integer) ==
    IF file = None THEN Read(None, 1)
    ELSE IF Len(file[1]) = 0 THEN Read(None, 1)
    ELSE
        LET processed == [k \in 1..Len(blocks(file[1])) |->
                            process_treatment_block(blocks(file[1])[k])]
            errors == np_sum([k \in 1..Len(processed) |-> processed[k].errors])
            made == SelectSeq(processed, LAMBDA r : r.value # None)
            data_frames == [k \in 1..Len(made) |-> made[k].value[1]]
        IN  IF Len(data_frames) = 0 THEN return_no_data(errors)
            ELSE Read(Some(with_DATE(standardize_dtypes(
                               dropna_columns(concat(data_frames)),
                               has_int_is_integer))),
                      errors)

-----------------------------------------------------------------------------
(* Inputs of read_file *)

\* Most lines after the header line of the first treatment block; the second
\* block has at most one.
MaxBlockRows == 2

\* The k-th line after the header of block b: a row of three values
\* (YEAR, DOY, CWAD; no two rows of a file have the same DOY), a row of two
\* values, a row of four values, or a line that starts with "*".
RowLine(kind, b, k) ==
    LET row == <<" ", "1", "9", "9", "1", " ", "0">> \o str_of_nat(5 + b) \o str_of_nat(k)
    IN  CASE kind = "full" -> row \o <<" ">> \o str_of_nat(k) \o <<"0", "0">>
          [] kind = "short" -> row
          [] kind = "long" -> row \o <<" ">> \o str_of_nat(k) \o <<"0", "0", " ", "9">>
          [] kind = "star" -> <<"*", "E", "N", "D">>

RowKinds == {"full", "short", "long", "star"}

HeaderLine == <<"@", "Y", "E", "A", "R", " ", "D", "O", "Y", " ", "C", "W", "A", "D">>

\* The header line of the second block names another third column.
HeaderLine2 == <<"@", "Y", "E", "A", "R", " ", "D", "O", "Y", " ", "L", "A", "I", "D">>

\* The lines of block b under its first line: a header line or none, at
\* most the given number of rows, a blank line.
BlockBodies(b, most) ==
    UNION { { header \o [k \in 1..n |-> RowLine(kinds[k], b, k)] \o << <<>> >> :
                header \in { <<>>, <<IF b = 2 THEN HeaderLine2 ELSE HeaderLine>> },
                kinds \in [1..n -> RowKinds] } :
            n \in 0..most }

\* TREATMENT lines: with a number (in two spellings), and without one.
TreatmentLines(b) ==
    IF b = 1 THEN { <<" ", "T", "R", "E", "A", "T", "M", "E", "N", "T", " ", " ", "1", " ", ":", " ", "A">>, <<"T", "R", "E", "A", "T", "M", "E", "N", "T">> }
    ELSE { <<"t", "r", "e", "a", "t", "m", "e", "n", "t", " ", "2", " ", "B">>, <<" ", "T", "R", "E", "A", "T", "M", "E", "N", "T", " ", " ", "1", " ", ":", " ", "A">> }

\* Files: a missing file, an empty file, and files of a "*RUN" line followed
\* by a body without TREATMENT line, by one treatment block or by two, or by
\* a header line, a row and one treatment block.
Files ==
    { None, Some(<<>>) }
    \cup { Some(<< <<"*", "R", "U", "N", " ", "1">> >> \o body) : body \in BlockBodies(1, MaxBlockRows) }
    \cup { Some(<< <<"*", "R", "U", "N", " ", "1">>, t >> \o body) :
             t \in TreatmentLines(1), body \in BlockBodies(1, MaxBlockRows) }
    \cup { Some(<< <<"*", "R", "U", "N", " ", "1">>, t1 >> \o body1 \o <<t2>> \o body2) :
             t1 \in TreatmentLines(1), body1 \in BlockBodies(1, MaxBlockRows),
             t2 \in TreatmentLines(2), body2 \in BlockBodies(2, 1) }
    \cup { Some(<< <<"*", "R", "U", "N", " ", "1">>, HeaderLine, RowLine("full", 0, 1), t >>
                 \o body) :
             t \in TreatmentLines(1), body \in BlockBodies(1, MaxBlockRows) }

InitFile ==
    /\ pc = "call"
    /\ callee = "read_file"
    /\ IdleOther
    /\ out_file \in Files
    /\ int_is_integer \in BOOLEAN
    /\ read_file_result = Unset
    /\ df = Unset /\ dtypes_result = Unset
    /\ IdleDate /\ IdleMetrics /\ IdlePairs /\ IdleXvar
    /\ IdleTreatments /\ IdleObserved

Call_read_file ==
    /\ pc = "call"
    /\ callee = "read_file"
    /\ read_file_result' = read_file(out_file, int_is_integer)
    /\ pc' = "done"
    /\ UNCHANGED callee
    /\ UNCHANGED otherVars
    /\ UNCHANGED <<out_file, dateVars, metricsVars, dtypesVars, pairsVars, xvarVars,
                   treatmentsVars, observedVars>>

NextFile == Call_read_file

SpecFile == InitFile /\ [][NextFile]_vars

\* The call of read_file returned.
FileCall == pc = "done" /\ out_file # None

-----------------------------------------------------------------------------
(* Claims about read_file (specification SpecFile) *)

\* The lines of the file that are TREATMENT lines.
TreatmentIndices ==
    { i \in 1..Len(out_file[1]) : is_treatment_line(out_file[1][i]) }

\* The lines of the file that are rows of values: not blank, not a header,
\* not a TREATMENT line and not starting with "*".
RowIndices ==
    { j \in 1..Len(out_file[1]) :
        /\ is_data_line(out_file[1][j])
        /\ ~starts_with_at(out_file[1][j])
        /\ j \notin TreatmentIndices }

\* The TREATMENT line that opens the block of line j.
BlockOf(j) ==
    CHOOSE t \in TreatmentIndices :
        t < j /\ \A u \in TreatmentIndices : u < j => u <= t

\* The lines whose values are row i of the returned dataset (rows are told
\* apart by their DOY text).
LinesOfRow(i) ==
    { j \in RowIndices :
        split(out_file[1][j])[2] = read_file_result.value[1][DOY].values[i].s }

\* C16: read_file on a file with several TREATMENT blocks, each TREATMENT
\* line carrying a number as its second token, returns a dataset in which
\* every row has in column TRT the number of the TREATMENT line of the block
\* the row came from, and the set of TRT values is exactly the set of numbers
\* of the blocks that contributed rows.
C16_RowsTaggedByBlock ==
    ( /\ FileCall
      /\ Cardinality(TreatmentIndices) >= 2
      /\ \A t \in TreatmentIndices : Len(split(out_file[1][t])) >= 2
      /\ read_file_result.value # None ) =>
        LET frame == read_file_result.value[1]
        IN  /\ TRT \in columns(frame)
            /\ \A i \in 1..nrows(frame) :
                 /\ LinesOfRow(i) # {}
                 /\ \A j \in LinesOfRow(i) :
                      frame[TRT].values[i]
                          = Str(split(out_file[1][BlockOf(j)])[2])
            /\ { frame[TRT].values[i] : i \in 1..nrows(frame) }
                   = { Str(split(out_file[1][BlockOf(j)])[2]) :
                         j \in UNION { LinesOfRow(i) : i \in 1..nrows(frame) } }

\* A file with the blocks of treatments 1 and 2, one row each, gave the rows
\* of days 061 and 071 tagged "1" and "2".
C16_Witness ==
    /\ FileCall
    /\ Cardinality(TreatmentIndices) = 2
    /\ read_file_result.value # None
    /\ read_file_result.value[1][DOY].values = <<Str(<<"0", "6", "1">>), Str(<<"0", "7", "1">>)>>
    /\ read_file_result.value[1][TRT].values = <<Str(<<"1">>), Str(<<"2">>)>>

\* The file has an "@" header line and no row of values.
HeaderWithoutRows ==
    /\ FileCall
    /\ \E h \in 1..Len(out_file[1]) : starts_with_at(out_file[1][h])
    /\ RowIndices = {}

\* C17 as stated: read_file on a file with a valid "@" header line followed
\* by zero data rows returns a dataset of zero rows and neither raises nor
\* reports an error.
C17_AsStated ==
    HeaderWithoutRows =>
        /\ read_file_result.value # None
        /\ nrows(read_file_result.value[1]) = 0
        /\ read_file_result.errors = 0

\* C17 as amended: read_file on a file with a valid "@" header line followed
\* by zero data rows returns no dataset (None) and neither raises nor reports
\* an error.
C17_HeaderOnlyGivesNone ==
    HeaderWithoutRows => read_file_result = Read(None, 0)

\* A file with two treatment blocks, each a header line and nothing or only
\* a "*" line under it, gave None without an error message.
C17_Witness ==
    /\ HeaderWithoutRows
    /\ Cardinality(TreatmentIndices) = 2
    /\ \E j \in 1..Len(out_file[1]) : out_file[1][j] = <<"*", "E", "N", "D">>
    /\ read_file_result = Read(None, 0)

\* The line that opens the block of line j: the last TREATMENT line above
\* it, or 0 in a file without TREATMENT line (the file is the block).
BlockStart(j) ==
    IF \E t \in TreatmentIndices : t < j THEN BlockOf(j)
    ELSE IF TreatmentIndices = {} THEN 0
    ELSE -1

\* The header lines of the block of line j above line j.
HeadersAbove(j) ==
    { h \in 1..(j - 1) :
        /\ BlockStart(j) >= 0
        /\ h > BlockStart(j)
        /\ starts_with_at(out_file[1][h]) }

\* The number of columns the header of the block of line j names.
HeaderWidth(j) ==
    LET h == CHOOSE h \in HeadersAbove(j) : \A g \in HeadersAbove(j) : h <= g
    IN  Len(split(strip(lstrip_at(out_file[1][h]))))

\* Rows under the header of their block.
RowsUnderHeader == { j \in RowIndices : HeadersAbove(j) # {} }

\* C18 as stated: when a block contains a row whose token count differs
\* from the header's column count, only that row is rejected or padded or
\* truncated: every row of the file that has as many tokens as its header
\* has columns still appears in the dataset read_file returns.
C18_AsStated ==
    ( /\ FileCall
      /\ \E j \in RowsUnderHeader : Len(split(out_file[1][j])) # HeaderWidth(j) ) =>
        \A j \in RowsUnderHeader :
            Len(split(out_file[1][j])) = HeaderWidth(j) =>
                /\ read_file_result.value # None
                /\ \E i \in 1..nrows(read_file_result.value[1]) :
                       read_file_result.value[1][DOY].values[i].s
                           = split(out_file[1][j])[2]

-----------------------------------------------------------------------------
(* dssat_io.read_treatments *)

TR == <<"T", "R">>
TNAME == <<"T", "N", "A", "M", "E">>

starts_with_star(line) == startswith(line, <<"*">>)
starts_with_TREATMENT(line) == startswith(line, <<"*", "T", "R", "E", "A", "T", "M", "E", "N", "T">>)
starts_with_space(line) == startswith(line, <<" ">>)

\* line[:3].strip()
tr_field(line) == strip(slice(line, 0, 3))

\* A name field that begins one character late.
tname_field_from_10(line) == strip(slice(line, 10, 36))

\* line[9:36].strip()
tname_field(line) == strip(slice(line, 9, 36))

\* file is None when the path does not exist, else the lines of the file.
read_treatments(file) ==
    IF file = None THEN Read(None, 1)
    ELSE
        LET lines == file[1]
            treatment_begins == first_index(lines, starts_with_TREATMENT)
            after == { i \in (treatment_begins + 1)..Len(lines) :
                         starts_with_star(lines[i]) }
            treatment_ends == IF after = {} THEN Len(lines) + 1
                              ELSE CHOOSE i \in after : \A j \in after : i <= j
            treatment_data == SubSeq(lines, treatment_begins, treatment_ends - 1)
            not_trash_lines == SelectSeq(treatment_data, starts_with_space)
        IN  IF treatment_begins = 0 THEN Read(None, 0)
            ELSE Read(Some(
                     (TR :> Column("object",
                                   [k \in 1..Len(not_trash_lines) |->
                                      Str(tr_field(not_trash_lines[k]))]))
                     @@ (TNAME :> Column("object",
                                   [k \in 1..Len(not_trash_lines) |->
                                      Str(tname_field(not_trash_lines[k]))]))),
                     0)

-----------------------------------------------------------------------------
(* Inputs of read_treatments *)

\* Most lines of a treatment file.
MaxTreatmentLines == 4

\* Lines of an experiment file: section lines, the section header of the
\* treatments, a column header, records that start with a blank (a long one
\* and a short one), a record that starts with a digit, an empty line and a
\* line of blanks.
ExperimentLines ==
    { <<"*", "E", "X", "P", ".", "D", "E", "T", "A", "I", "L", "S", ":", " ", "X">>,
      <<"*", "T", "R", "E", "A", "T", "M", "E", "N", "T", "S", " ", " ", " ", " ", " ", " ", " ", " ", "-", "-", "-", "-">>,
      <<"*", "C", "U", "L", "T", "I", "V", "A", "R", "S">>,
      <<"@", "N", " ", "R", " ", "O", " ", "C", " ", "T", "N", "A", "M", "E">>,
      <<" ", "1", " ", "1", " ", "0", " ", "0", " ", "R", "A", "I", "N", "F", "E", "D", " ", "L", "O", "W", " ", "N", " ", " ", " ", " ", " ", " ", " ", " ", " ", " ", " ", " ", " ", " ", " ", " ", "1", " ", " ", "1", " ", " ", "0">>,
      <<" ", "2", " ", "1", " ", "0", " ", "0", " ", "B">>,
      <<"1", "2", " ", "1", " ", "0", " ", "0", " ", "I", "R", "R", "I", "G", "A", "T", "E", "D">>,
      <<>>,
      <<" ", " ">> }

TreatmentFiles ==
    {None} \cup UNION { { Some(lines) : lines \in [1..n -> ExperimentLines] } :
                        n \in 0..MaxTreatmentLines }

InitTreatments ==
    /\ pc = "call"
    /\ callee = "read_treatments"
    /\ IdleOther
    /\ treatment_file \in TreatmentFiles
    /\ treatments_result = Unset
    /\ IdleDate /\ IdleMetrics /\ IdleDtypes /\ IdlePairs /\ IdleXvar
    /\ IdleFile /\ IdleObserved

Call_read_treatments ==
    /\ pc = "call"
    /\ callee = "read_treatments"
    /\ treatments_result' = read_treatments(treatment_file)
    /\ pc' = "done"
    /\ UNCHANGED callee
    /\ UNCHANGED otherVars
    /\ UNCHANGED <<treatment_file, dateVars, metricsVars, dtypesVars, pairsVars,
                   xvarVars, fileVars, observedVars>>

NextTreatments == Call_read_treatments

SpecTreatments == InitTreatments /\ [][NextTreatments]_vars

-----------------------------------------------------------------------------
(* Claims about read_treatments (specification SpecTreatments) *)

\* The first line that starts with "*TREATMENT"; 0 when there is none.
SectionBegin ==
    LET begins == { i \in 1..Len(treatment_file[1]) :
                      startswith(treatment_file[1][i], <<"*", "T", "R", "E", "A", "T", "M", "E", "N", "T">>) }
    IN  IF begins = {} THEN 0
        ELSE CHOOSE i \in begins : \A j \in begins : i <= j

\* The lines of the section that start with a space: those after
\* SectionBegin with no line starting with "*" between.
RecordLines ==
    { j \in (SectionBegin + 1)..Len(treatment_file[1]) :
        /\ Len(treatment_file[1][j]) > 0
        /\ treatment_file[1][j][1] = " "
        /\ \A i \in (SectionBegin + 1)..(j - 1) :
               ~(Len(treatment_file[1][i]) > 0 /\ treatment_file[1][i][1] = "*") }

\* C19: read_treatments returns one record per line that starts with a space
\* between the first line starting with "*TREATMENT" and the next line
\* starting with "*" (or the end of the file), in file order, with TR the
\* characters [0:3] stripped and TNAME the characters [9:36] stripped; no
\* other line contributes a record.
C19_OneRecordPerSpaceLine ==
    ( /\ pc = "done"
      /\ treatment_file # None
      /\ SectionBegin # 0 ) =>
        /\ treatments_result.value # None
        /\ Len(treatments_result.value[1][TR].values) = Cardinality(RecordLines)
        /\ Len(treatments_result.value[1][TNAME].values) = Cardinality(RecordLines)
        /\ \A j \in RecordLines :
             LET k == Cardinality({ i \in RecordLines : i <= j })
                 line == treatment_file[1][j]
             IN  /\ treatments_result.value[1][TR].values[k]
                        = Str(strip(SubSeq(line, 1, min(3, Len(line)))))
                 /\ treatments_result.value[1][TNAME].values[k]
                        = Str(strip(SubSeq(line, 10, min(36, Len(line)))))

\* A file of a section line, "*TREATMENTS", a long record, and "*CULTIVARS"
\* gave the one record TR "1", TNAME "RAINFED LOW N".
C19_Witness ==
    /\ pc = "done"
    /\ treatment_file # None
    /\ Len(treatment_file[1]) = 4
    /\ SectionBegin = 2
    /\ treatment_file[1][4] = <<"*", "C", "U", "L", "T", "I", "V", "A", "R", "S">>
    /\ treatments_result.value # None
    /\ treatments_result.value[1][TR].values = <<Str(<<"1">>)>>
    /\ treatments_result.value[1][TNAME].values = <<Str(<<"R", "A", "I", "N", "F", "E", "D", " ", "L", "O", "W", " ", "N">>)>>

-----------------------------------------------------------------------------
(* dssat_io.read_observed_data *)

\* Timestamp.strftime("%Y-%m-%d") of day j of year y
month_of(y, j) ==
    CHOOSE mo \in 1..12 :
        LET before == DaysBeforeMonth[mo] + (IF mo > 2 /\ is_leap(y) THEN 1 ELSE 0)
        IN  before < j /\ j <= before + days_in_month(y, mo)

strftime_Ymd(y, j) ==
    LET mo == month_of(y, j)
        d == j - DaysBeforeMonth[mo] - (IF mo > 2 /\ is_leap(y) THEN 1 ELSE 0)
    IN  zero_pad(str_of_nat(y), 4) \o <<"-">> \o zero_pad(str_of_nat(mo), 2)
        \o <<"-">> \o zero_pad(str_of_nat(d), 2)

\* line.strip().startswith("@")
strip_starts_with_at(line) == startswith(strip(line), <<"@">>)

\* df.rename(columns={"TRNO": "TRT"})
rename_TRNO(frame) ==
    [c \in { IF c = TRNO THEN TRT ELSE c : c \in columns(frame) } |->
       IF c = TRT /\ TRNO \in columns(frame) THEN frame[TRNO] ELSE frame[c]]

\* The rows of frame at the positions keep, in order
take_rows(frame, keep) ==
    LET positions == SelectSeq([i \in 1..nrows(frame) |-> i], LAMBDA i : i \in keep)
    IN  [c \in columns(frame) |->
           Column(frame[c].dtype,
                  [k \in 1..Len(positions) |-> frame[c].values[positions[k]]])]

\* Lines 333-336: DATE parsed by unified_date_convert(date_str=str(x)),
\* written as "%Y-%m-%d", and the rows without a date dropped.
convert_observed_DATE(frame) ==
    IF DATE \in columns(frame) THEN
        LET dates == [i \in 1..nrows(frame) |->
                        unified_date_convert(None, None,
                                             Some(astype_str(frame[DATE]).values[i].s))]
            texts == [i \in 1..nrows(frame) |->
                        IF dates[i].kind = "date"
                        THEN Str(strftime_Ymd(dates[i].year, dates[i].dayofyear))
                        ELSE NA]
        IN  take_rows(with_column(frame, DATE, Column("object", texts)),
                      { i \in 1..nrows(frame) : ~isna(texts[i]) })
    ELSE frame

\* Lines 339-341: TRNO and TRT as str
treatment_columns_as_str(frame) ==
    [c \in columns(frame) |->
       IF c \in {TRNO, TRT} THEN astype_str(frame[c]) ELSE frame[c]]

\* Lines 344-345: required_vars is "TRT" and the y_vars that are columns;
\* missing_vars are the required_vars that are no columns.
missing_required(frame, wanted) ==
    { var \in {TRT} \cup { v \in wanted : v \in columns(frame) } :
        var \notin columns(frame) }

\* known: get_crop_details has the folder; content: the lines of the first
\* matching T file, None without one; wanted: the set of names in y_vars.
read_observed_data(known, content, wanted, has_int_is_integer) ==
    IF ~known THEN Read(None, 1)
    ELSE IF content = None THEN Read(None, 0)
    ELSE
        LET header_idx == first_index(content[1], strip_starts_with_at)
        IN  IF header_idx = 0 THEN Read(None, 1)
            ELSE
                LET split_headers == split(lstrip_at(strip(content[1][header_idx])))
                    headers == [k \in 1..Len(split_headers) |-> upper(split_headers[k])]
                    kept == SelectSeq(SubSeq(content[1], header_idx + 1, Len(content[1])),
                                      is_data_line)
                    data_rows == [i \in 1..Len(kept) |-> split(strip(kept[i]))]
                IN  IF Len(data_rows) = 0 THEN Read(None, 1)
                    ELSE IF max_len(data_rows) # Len(headers) THEN Read(None, 1)
                    ELSE
                        LET made == treatment_columns_as_str(convert_observed_DATE(
                                        standardize_dtypes(
                                            dropna_columns(rename_TRNO(
                                                DataFrame(data_rows, headers))),
                                            has_int_is_integer)))
                        IN  IF missing_required(made, wanted) # {}
                            THEN Read(None, 0)
                            ELSE Read(Some(made), 0)

-----------------------------------------------------------------------------
(* Inputs of read_observed_data *)

\* Most lines of a T file.
MaxObservedLines == 3

\* Lines of a T file: a header with the treatment column, one without (and
\* indented), rows with a date, with a text that is no date, and with a
\* value missing, a line that starts with "*", an empty line.
ObservedLines ==
    { <<"@", "T", "R", "N", "O", " ", "D", "A", "T", "E", " ", "C", "W", "A", "D">>,
      <<" ", "@", "d", "a", "t", "e", " ", "c", "w", "a", "d">>,
      <<" ", "1", " ", "9", "1", "0", "6", "0", " ", "1", "0", "0">>,
      <<" ", "1", " ", "x", "x", " ", "2", "0", "0">>,
      <<" ", "2", " ", "9", "1", "0", "6", "1">>,
      <<"*", "E", "X", "P", ".", "D", "A", "T", "A", " ", "(", "T", ")", ":", " ", "X">>,
      <<>> }

TFiles ==
    {None} \cup UNION { { Some(lines) : lines \in [1..n -> ObservedLines] } :
                        n \in 0..MaxObservedLines }

\* y_vars: nothing, a variable of the file, one of no file, both.
YVars == { {}, {CWAD}, {LAID}, {CWAD, LAID} }

InitObserved ==
    /\ pc = "call"
    /\ callee = "read_observed_data"
    /\ IdleOther
    /\ crop_info \in BOOLEAN
    /\ t_file \in TFiles
    /\ y_vars \in YVars
    /\ int_is_integer \in BOOLEAN
    /\ observed_result = Unset
    /\ df = Unset /\ dtypes_result = Unset
    /\ IdleDate /\ IdleMetrics /\ IdlePairs /\ IdleXvar
    /\ IdleFile /\ IdleTreatments

Call_read_observed_data ==
    /\ pc = "call"
    /\ callee = "read_observed_data"
    /\ observed_result' = read_observed_data(crop_info, t_file, y_vars, int_is_integer)
    /\ pc' = "done"
    /\ UNCHANGED callee
    /\ UNCHANGED otherVars
    /\ UNCHANGED <<crop_info, t_file, y_vars, dateVars, metricsVars, dtypesVars,
                   pairsVars, xvarVars, fileVars, treatmentsVars>>

NextObserved == Call_read_observed_data

SpecObserved == InitObserved /\ [][NextObserved]_vars

-----------------------------------------------------------------------------
(* Claims about read_observed_data (specification SpecObserved) *)

\* The call read a T file.
ObservedCall == pc = "done" /\ crop_info /\ t_file # None

\* The lines that are a header: "@" first after leading blanks.
ObservedHeaders ==
    { h \in 1..Len(t_file[1]) :
        LET line == lstrip(t_file[1][h]) IN Len(line) > 0 /\ line[1] = "@" }

\* The first header line.
ObservedHeader == CHOOSE h \in ObservedHeaders : \A g \in ObservedHeaders : h <= g

\* The lines after the first header that are rows: not blank and not
\* starting with "*".
ObservedRows ==
    { j \in (ObservedHeader + 1)..Len(t_file[1]) :
        /\ Len(strip(t_file[1][j])) > 0
        /\ t_file[1][j][1] # "*" }

\* The column names the first header gives.
ObservedColumns ==
    LET names == split(lstrip_at(strip(t_file[1][ObservedHeader])))
    IN  { upper(names[k]) : k \in 1..Len(names) }

\* C20 as stated: read_observed_data returns no dataset, and does not
\* raise, when the file has no "@" header line, when no data rows follow the
\* header, and when none of the requested y_vars is among the parsed
\* columns.
C20_AsStated ==
    ( /\ ObservedCall
      /\ \/ ObservedHeaders = {}
         \/ ObservedRows = {}
         \/ (y_vars # {} /\ y_vars \cap ObservedColumns = {}) ) =>
        observed_result.value = None

-----------------------------------------------------------------------------
(* dssat_io.read_evaluate_file *)

\* A DataFrame with its columns in order, whose labels may repeat: names[k]
\* is the label of the k-th column and cols[k] the column.
Table(names, cols) == [names |-> names, cols |-> cols]

\* Whether some label occurs at two positions.
has_repeats(names) ==
    \E i, j \in 1..Len(names) : i # j /\ names[i] = names[j]

\* pd.DataFrame(data_lines, columns=headers), the columns in header order.
DataTable(data_lines, headers) ==
    Table(headers,
          [k \in 1..Len(headers) |->
             Column("object",
                    [i \in 1..Len(data_lines) |->
                       IF k <= Len(data_lines[i]) THEN Str(data_lines[i][k]) ELSE NA])])

\* Lines 565-566: df[col] = pd.to_numeric(df[col], errors='coerce') for
\* every column.
numeric_table(table) ==
    Table(table.names, [k \in 1..Len(table.cols) |-> to_numeric(table.cols[k])])

\* config.MISSING_VALUES: the numbers -99 (written -99, -99.0 and -99.),
\* -99.9 and -99.99, and the same five spellings as str.
MISSING_VALUES ==
    { IntCell(-99), FloatCell(-999, 1), FloatCell(-9999, 2),
      Str(<<"-", "9", "9">>), Str(<<"-", "9", "9", ".", "0">>), Str(<<"-", "9", "9", ".", "9">>), Str(<<"-", "9", "9", ".", "9", "9">>),
      Str(<<"-", "9", "9", ".">>) }

\* cell == val as DataFrame.replace compares: numbers by value, str by text
equals(cell, val) ==
    IF cell.t \in {"int", "float"} /\ val.t \in {"int", "float"}
    THEN cell.mant * pow10(val.scale) = val.mant * pow10(cell.scale)
    ELSE cell.t = "str" /\ val.t = "str" /\ cell.s = val.s

\* The cells of a column left as they are.
replace_nothing(col) == col

\* Lines 569-570: df.replace(val, np.nan) for every val of MISSING_VALUES,
\* on one column; an int64 column that loses a cell becomes float64.
replace_missing(col) ==
    LET hit == { i \in 1..Len(col.values) :
                   \E val \in MISSING_VALUES : equals(col.values[i], val) }
        cleared == [i \in 1..Len(col.values) |->
                      IF i \in hit THEN NA ELSE col.values[i]]
    IN  IF hit = {} THEN col
        ELSE IF col.dtype = "int64" THEN astype_float64(Column("float64", cleared))
        ELSE Column(col.dtype, cleared)

replace_missing_table(table) ==
    Table(table.names, [k \in 1..Len(table.cols) |-> replace_missing(table.cols[k])])

TN == <<"T", "N">>

\* Line 573
treatment_cols == <<TRNO, TR, TRT, TN>>

\* col.upper() in [t.upper() for t in treatment_cols]
is_treatment_col(col) ==
    \E t \in 1..Len(treatment_cols) : upper(col) = upper(treatment_cols[t])

\* df.rename(columns={col: 'TRNO'})
rename_to_TRNO(table, col) ==
    Table([k \in 1..Len(table.names) |->
             IF table.names[k] = col THEN TRNO ELSE table.names[k]],
          table.cols)

\* Lines 575-586: the first column, in column order, whose upper-cased name
\* is a treatment name is renamed to TRNO unless it is spelled TRNO already;
\* without such a column df['TRNO'] = 1 appends one.
treatment_column(table) ==
    LET found == first_index(table.names, is_treatment_col)
        n == IF Len(table.cols) = 0 THEN 0 ELSE Len(table.cols[1].values)
    IN  IF found = 0
        THEN Table(Append(table.names, TRNO),
                   Append(table.cols, Column("int64", repeat(IntCell(1), n))))
        ELSE IF table.names[found] # TRNO
        THEN rename_to_TRNO(table, table.names[found])
        ELSE table

\* standardize_dtypes on a table.  df[col] of a label that occurs twice is
\* a DataFrame, pd.to_numeric raises TypeError on it and "except Exception:
\* pass" leaves those columns as they are; dropna drops every all-NaN column.
\* The labels that can repeat here are TRNO, which is no reserved name.
standardize_dtypes_table(table, has_int_is_integer) ==
    LET n == Len(table.names)
        once == { k \in 1..n : \A j \in 1..n : table.names[j] = table.names[k] => j = k }
        typed == standardize_dtypes(
                     [c \in { table.names[k] : k \in once } |->
                        table.cols[CHOOSE k \in once : table.names[k] = c]],
                     has_int_is_integer)
        keep == SelectSeq([k \in 1..n |-> k],
                          LAMBDA k : IF k \in once THEN table.names[k] \in columns(typed)
                                     ELSE ~all_na(table.cols[k]))
    IN  Table([i \in 1..Len(keep) |-> table.names[keep[i]]],
              [i \in 1..Len(keep) |->
                 IF keep[i] \in once THEN typed[table.names[keep[i]]]
                 ELSE table.cols[keep[i]]])

\* An exception that leaves the function.
propagate == [value |-> None, errors |-> 0, raised |-> TRUE]

\* Lines 595-598: except Exception: logger.error(...); return None
except_Exception == Read(None, 1)

\* known: get_crop_details has the folder; content: the lines of
\* EVALUATE.OUT, None without the file.  A header that names a column twice
\* makes df[col] a DataFrame at line 566 and pd.to_numeric raise TypeError;
\* rows longer or all shorter than the header make the constructor raise
\* ValueError; both are caught at line 595.
read_evaluate_file(known, content, has_int_is_integer) ==
    IF ~known THEN Read(None, 1)
    ELSE IF content = None THEN Read(None, 0)
    ELSE
        LET header_idx == first_index(content[1], strip_starts_with_at)
        IN  IF header_idx = 0 THEN Read(None, 1)
            ELSE
                LET headers == split(lstrip_at(strip(content[1][header_idx])))
                    kept == SelectSeq(SubSeq(content[1], header_idx + 1, Len(content[1])),
                                      is_data_line)
                    data_lines == [i \in 1..Len(kept) |-> split(strip(kept[i]))]
                IN  IF Len(data_lines) = 0 THEN Read(None, 0)
                    ELSE IF max_len(data_lines) # Len(headers) THEN except_Exception
                    ELSE IF has_repeats(headers) THEN except_Exception
                    ELSE Read(Some(standardize_dtypes_table(
                                       treatment_column(replace_missing_table(
                                           numeric_table(DataTable(data_lines, headers)))),
                                       has_int_is_integer)),
                              0)

-----------------------------------------------------------------------------
(* Inputs of read_evaluate_file *)

\* Most data lines of an EVALUATE.OUT file.
MaxEvaluateRows == 2

\* Header lines: the treatment column under each of its names, in the first
\* and in the second place, no treatment column, two treatment names, and
\* one name twice.
EvaluateHeaders ==
    { <<"@", "T", "R", "N", "O", " ", "H", "W", "A", "M">>, <<"@", "T", "R", " ", "H", "W", "A", "M">>, <<"@", "t", "r", "t", " ", "H", "W", "A", "M">>, <<"@", "H", "W", "A", "M", " ", "T", "N">>,
      <<"@", "R", "U", "N", " ", "H", "W", "A", "M">>, <<"@", "T", "R", " ", "T", "R", "N", "O">>, <<"@", "T", "R", "N", "O", " ", "T", "R", "T">>, <<"@", "H", "W", "A", "M", " ", "H", "W", "A", "M">> }

\* First data lines: every spelling of a missing value and one more with
\* the same value, numbers next to them, a treatment that is no number, one that is -99, a short and a long
\* row, a line that starts with "*", an empty line.
EvaluateRows ==
    { <<"1", " ", "5">>, <<"2", " ", "1", ".", "5">>, <<"1", " ", "-", "9", "9">>, <<"2", " ", "-", "9", "9", ".", "0">>, <<"1", " ", "-", "9", "9", ".", "9">>,
      <<"2", " ", "-", "9", "9", ".", "9", "9">>, <<"1", " ", "-", "9", "9", ".">>, <<"1", " ", "-", "9", "9", ".", "5">>, <<"A", " ", "7">>, <<"-", "9", "9", " ", "7">>,
<<"2", " ", "-", "9", "9", ".", "9", "0">>,
      <<"3">>, <<"1", " ", "2", " ", "3">>, <<"*", "E", "V", "A", "L", "U", "A", "T", "I", "O", "N">>, <<>> }

\* Later data lines.
MoreEvaluateRows == { <<"2", " ", "7">>, <<"B", " ", "-", "9", "9">>, <<"3">> }

EvaluateBodies ==
    {<<>>} \cup
    UNION { { <<first>> \o more : first \in EvaluateRows,
                                  more \in [1..(n - 1) -> MoreEvaluateRows] } :
            n \in 1..MaxEvaluateRows }

EvaluateFiles ==
    {None} \cup { Some(body) : body \in EvaluateBodies }
    \cup { Some(<<header>> \o body) : header \in EvaluateHeaders, body \in EvaluateBodies }

InitEvaluate ==
    /\ pc = "call"
    /\ callee = "read_evaluate_file"
    /\ evaluate_crop \in BOOLEAN
    /\ evaluate_file \in EvaluateFiles
    /\ int_is_integer \in BOOLEAN
    /\ evaluate_result = Unset
    /\ df = Unset /\ dtypes_result = Unset
    /\ IdleDate /\ IdleMetrics /\ IdlePairs /\ IdleXvar /\ IdleReaders
    /\ IdleScale /\ IdleBatch /\ IdleViewer

Call_read_evaluate_file ==
    /\ pc = "call"
    /\ callee = "read_evaluate_file"
    /\ evaluate_result' = read_evaluate_file(evaluate_crop, evaluate_file, int_is_integer)
    /\ pc' = "done"
    /\ UNCHANGED callee
    /\ UNCHANGED <<evaluate_crop, evaluate_file, dateVars, metricsVars, dtypesVars,
                   pairsVars, xvarVars, readerVars, scaleVars, batchVars,
                   viewerVars>>

NextEvaluate == Call_read_evaluate_file

SpecEvaluate == InitEvaluate /\ [][NextEvaluate]_vars

-----------------------------------------------------------------------------
(* Claims about read_evaluate_file *)

EvaluateCall == pc = "done" /\ evaluate_result # Unset

\* The call returned a dataset.
EvaluateReturned == EvaluateCall /\ evaluate_result.value # None

\* The header line of the file, and its column names.
EvaluateHeader ==
    evaluate_file[1][first_index(evaluate_file[1], strip_starts_with_at)]
EvaluateNames == split(lstrip_at(strip(EvaluateHeader)))

\* The token lists of the data lines under the header.
EvaluateTokens ==
    LET lines == evaluate_file[1]
        kept == SelectSeq(SubSeq(lines, first_index(lines, strip_starts_with_at) + 1,
                                 Len(lines)),
                          is_data_line)
    IN  [i \in 1..Len(kept) |-> split(strip(kept[i]))]

\* The positions of the header's treatment names.
AliasPositions == { k \in 1..Len(EvaluateNames) : is_treatment_col(EvaluateNames[k]) }

\* The cell holds the number the token denotes.
holds_token(cell, token) ==
    /\ parse_number(token).ok
    /\ cell.t \in {"int", "float"}
    /\ cell.mant * pow10(parse_number(token).scale)
         = parse_number(token).mant * pow10(cell.scale)

\* C21 as stated: every returned dataset has a column named TRNO; with a
\* treatment name (TRNO, TR, TRT, TN in any case) in the header that column
\* holds, row by row, the values of the header's treatment column, and
\* without one it holds 1 in every row.
C21_AsStated ==
    EvaluateReturned =>
        LET table == evaluate_result.value[1]
        IN  \E k \in 1..Len(table.names) :
              /\ table.names[k] = TRNO
              /\ IF AliasPositions = {}
                 THEN \A i \in 1..Len(table.cols[k].values) :
                          table.cols[k].values[i] = IntCell(1)
                 ELSE \E a \in AliasPositions :
                        \A i \in 1..Len(EvaluateTokens) :
                            /\ a <= Len(EvaluateTokens[i])
                            /\ holds_token(table.cols[k].values[i], EvaluateTokens[i][a])

\* The number the token denotes is one of the numbers of MISSING_VALUES.
is_sentinel(token) ==
    /\ parse_number(token).ok
    /\ \E val \in MISSING_VALUES :
         equals(FloatCell(parse_number(token).mant, parse_number(token).scale), val)

\* The name the header's a-th column has in the returned dataset.
ReturnedName(a) ==
    IF a = first_index(EvaluateNames, is_treatment_col) THEN TRNO ELSE EvaluateNames[a]

\* The token of row i in the header's a-th column, <<>> when the row is short.
Token(i, a) ==
    IF a <= Len(EvaluateTokens[i]) THEN EvaluateTokens[i][a] ELSE <<>>

\* What C22 says of the header's a-th column when it is among the returned
\* columns: a cell whose token is a sentinel is missing(cell), a cell with
\* any other numeric token is not null.
SentinelsCleared(table, a, missing(_)) ==
    \E k \in 1..Len(table.names) :
      /\ table.names[k] = ReturnedName(a)
      /\ \A i \in 1..Len(EvaluateTokens) :
            IF is_sentinel(Token(i, a)) THEN missing(table.cols[k].values[i])
            ELSE parse_number(Token(i, a)).ok => ~isna(table.cols[k].values[i])

\* The header's a-th column has a numeric token that is no sentinel (a
\* column without one is all null and is not part of the dataset, unless
\* its name is reserved).
HasValue(a) ==
    \E i \in 1..Len(EvaluateTokens) :
        parse_number(Token(i, a)).ok /\ ~is_sentinel(Token(i, a))

\* C22 as stated: no cell of a returned dataset equals a missing-value
\* sentinel; every cell whose token is -99, -99.0, -99.9, -99.99 or -99. is
\* null and no cell with another numeric token is null.
C22_AsStated ==
    EvaluateReturned =>
        LET table == evaluate_result.value[1]
        IN  /\ \A k \in 1..Len(table.names) : \A i \in 1..Len(table.cols[k].values) :
                  \A val \in MISSING_VALUES : ~equals(table.cols[k].values[i], val)
            /\ \A a \in 1..Len(EvaluateNames) :
                  HasValue(a) => SentinelsCleared(table, a, isna)

is_nan_text(cell) == cell = Str(<<"n", "a", "n">>)

\* C22 as amended: no cell of a returned dataset equals a missing-value
\* sentinel; in a column whose returned name is not YEAR, DOY, DATE or TRT a
\* cell whose token denotes -99, -99.9 or -99.99 is null and a cell with
\* any other numeric token is not null; in a column named YEAR, DOY, DATE
\* or TRT the cell of a sentinel token is the text "nan".
C22_SentinelsBecomeNull ==
    EvaluateReturned =>
        LET table == evaluate_result.value[1]
        IN  /\ \A k \in 1..Len(table.names) : \A i \in 1..Len(table.cols[k].values) :
                  \A val \in MISSING_VALUES : ~equals(table.cols[k].values[i], val)
            /\ \A a \in 1..Len(EvaluateNames) :
                  HasValue(a) =>
                      IF is_reserved(ReturnedName(a))
                      THEN SentinelsCleared(table, a, is_nan_text)
                      ELSE SentinelsCleared(table, a, isna)

\* A column with the token -99.9 in its first row and 7 in its second came
\* back with a null and 7.
C22_Witness ==
    /\ EvaluateReturned
    /\ Len(EvaluateTokens) = 2
    /\ Token(1, 2) = <<"-", "9", "9", ".", "9">> /\ Token(2, 2) = <<"7">>
    /\ LET table == evaluate_result.value[1]
       IN  \E k \in 1..Len(table.names) :
             /\ table.names[k] = <<"H", "W", "A", "M">>
             /\ isna(table.cols[k].values[1])
             /\ holds_token(table.cols[k].values[2], <<"7">>)

-----------------------------------------------------------------------------
(* data_processing.improved_smart_scale *)

\* Defaults of the parameters target_min and target_max.
target_min == 1000
target_max == 10000

RECURSIVE gcd(_, _)
gcd(a, b) == IF b = 0 THEN a ELSE gcd(b, a % b)

\* A float of the result: the number num / den in lowest terms, or NaN.
Rat(num, den) ==
    LET g == gcd(abs(num), abs(den))
        sign == IF den < 0 THEN -1 ELSE 1
    IN  [nan |-> FALSE, num |-> sign * (num \div g), den |-> sign * (den \div g)]
RatNaN == [nan |-> TRUE, num |-> 0, den |-> 1]

\* The number of a numeric cell.
rat_of(cell) == Rat(cell.mant, pow10(cell.scale))

rat_mul(a, b) ==
    LET p == Rat(a.num, b.den)
        q == Rat(b.num, a.den)
    IN  Rat(p.num * q.num, p.den * q.den)
rat_div(a, b) == rat_mul(a, Rat(b.den, b.num))
rat_add(a, b) ==
    LET g == gcd(a.den, b.den)
    IN  Rat(a.num * (b.den \div g) + b.num * (a.den \div g), (a.den \div g) * b.den)
rat_sub(a, b) == rat_add(a, Rat(-b.num, b.den))
rat_le(a, b) == rat_sub(b, a).num >= 0

\* np.min(values), np.max(values) of a non-empty sequence of numbers
np_min(values) ==
    CHOOSE v \in { values[i] : i \in 1..Len(values) } :
        \A i \in 1..Len(values) : rat_le(v, values[i])
np_max(values) ==
    CHOOSE v \in { values[i] : i \in 1..Len(values) } :
        \A i \in 1..Len(values) : rat_le(values[i], v)

\* The two numbers are the same number.
isclose_exact(a, b) == a = b

\* np.isclose(a, b) with its defaults rtol = 1e-5 and atol = 1e-8:
\* |a - b| <= 1e-8 + 1e-5 * |b|.  With |a - b| = n / d and |b| = m / e that
\* is n * e * 10^8 <= d * (e + 1000 * m), computed without the large product.
isclose(a, b) ==
    LET diff == rat_sub(a, b)
    IN  abs(diff.num) * b.den <= (diff.den * (b.den + 1000 * abs(b.num))) \div pow10(8)

\* pd.to_numeric(data[var], errors="coerce") as floats, NaN for the rest
numeric_data(col) ==
    LET numeric == to_numeric(col)
    IN  [i \in 1..Len(numeric.values) |->
           IF isna(numeric.values[i]) THEN RatNaN ELSE rat_of(numeric.values[i])]

\* numeric_data * scale_factor + offset
scale_series(series, scale_factor, offset) ==
    [i \in 1..Len(series) |->
       IF series[i].nan THEN RatNaN
       ELSE rat_add(rat_mul(series[i], scale_factor), offset)]

\* The loop body for one variable: None for "continue" before an entry is
\* made, else the Series stored in scaled_data[var].  factors is the
\* (scale_factor, offset) pair of scaling_factors[var], None when
\* scaling_factors is None or empty or has no var.
scale_one(col, factors) ==
    LET series == numeric_data(col)
        values == SelectSeq(series, LAMBDA v : ~v.nan)
    IN  IF Len(values) = 0 THEN None
        ELSE IF factors # None
        THEN Some(scale_series(series, Rat(factors[1][1], 1), Rat(factors[1][2], 1)))
        ELSE
            LET var_min == np_min(values)
                var_max == np_max(values)
            IN  IF isclose(var_min, var_max)
                THEN Some([i \in 1..Len(col.values) |-> Rat(target_max + target_min, 2)])
                ELSE
                    LET scale_factor == rat_div(Rat(target_max - target_min, 1),
                                                rat_sub(var_max, var_min))
                        offset == rat_sub(Rat(target_min, 1),
                                          rat_mul(var_min, scale_factor))
                    IN  Some(scale_series(series, scale_factor, offset))

\* frame: data; wanted: variables, a list; factors: scaling_factors, a dict
\* (the empty one also for None).  The returned dict scaled_data.
improved_smart_scale(frame, wanted, factors) ==
    LET available_vars == { wanted[k] : k \in { k \in 1..Len(wanted) :
                                                  wanted[k] \in columns(frame) } }
        one(var) == scale_one(frame[var],
                              IF var \in DOMAIN factors THEN Some(factors[var]) ELSE None)
    IN  [var \in { v \in available_vars : one(v) # None } |-> one(var)[1]]

-----------------------------------------------------------------------------
(* Inputs of improved_smart_scale *)

\* Most rows of the frame.
MaxScaleRows == 3

\* Cells of the scaled column: a number as text, a word, a missing value,
\* two integers that np.isclose takes for equal, a negative integer.
ScaleCells ==
    { Str(<<"2", ".", "5">>), Str(<<"a", "b", "c">>), NA, IntCell(100000), IntCell(100001), IntCell(-4) }

\* Frames with the column CWAD and, or not, a constant column LAID.
ScaleFrames ==
    UNION { { IF with_laid
              THEN (CWAD :> Column("object", values))
                   @@ (LAID :> Column("int64", repeat(IntCell(7), n)))
              ELSE (CWAD :> Column("object", values)) :
                values \in [1..n -> ScaleCells], with_laid \in BOOLEAN } :
            n \in 0..MaxScaleRows }

\* variables: one present, one that may be absent, both
ScaleVariables == { <<CWAD>>, <<LAID>>, <<LAID, CWAD>> }

\* scaling_factors: none, (scale_factor, offset) for CWAD, and for LAID
ScalingFactors == { <<>>, (CWAD :> <<2, 10>>), (LAID :> <<0, 5>>) }

InitScale ==
    /\ pc = "call"
    /\ callee = "improved_smart_scale"
    /\ scale_data \in ScaleFrames
    /\ variables \in ScaleVariables
    /\ scaling_factors \in ScalingFactors
    /\ scaled_data = Unset
    /\ IdleDate /\ IdleMetrics /\ IdleDtypes /\ IdlePairs /\ IdleXvar /\ IdleReaders
    /\ IdleEvaluate /\ IdleBatch /\ IdleViewer

\* The call reads data and writes nothing into it.
Call_improved_smart_scale ==
    /\ pc = "call"
    /\ callee = "improved_smart_scale"
    /\ scaled_data' = improved_smart_scale(scale_data, variables, scaling_factors)
    /\ pc' = "done"
    /\ UNCHANGED callee
    /\ UNCHANGED <<scale_data, variables, scaling_factors, dateVars, metricsVars,
                   dtypesVars, pairsVars, xvarVars, readerVars, evaluateVars,
                   batchVars, viewerVars>>

NextScale == Call_improved_smart_scale

SpecScale == InitScale /\ [][NextScale]_vars

-----------------------------------------------------------------------------
(* Claims about improved_smart_scale *)

ScaleCall == pc = "done" /\ scaled_data # Unset

\* The numbers of column var of the argument, NaN where there is none.
ScaleInput(var) == numeric_data(scale_data[var])
ScaleNumbers(var) == { v \in { ScaleInput(var)[i] : i \in 1..Len(ScaleInput(var)) } : ~v.nan }

\* The requested variables that are columns with at least one number.
Scalable ==
    { var \in { variables[k] : k \in 1..Len(variables) } :
        var \in columns(scale_data) /\ ScaleNumbers(var) # {} }

\* What the claim says of a scalable variable; constant(var) is the test
\* for the midpoint case.
ScaledAsClaimed(var, constant(_)) ==
    LET input == ScaleInput(var)
        output == scaled_data[var]
        rows == 1..Len(input)
    IN  /\ Len(output) = Len(input)
        /\ IF var \in DOMAIN scaling_factors
           THEN \A i \in rows :
                  IF input[i].nan THEN output[i].nan
                  ELSE output[i] = rat_add(rat_mul(input[i], Rat(scaling_factors[var][1], 1)),
                                           Rat(scaling_factors[var][2], 1))
           ELSE IF constant(var)
           THEN \A i \in rows : output[i] = Rat(target_min + target_max, 2)
           ELSE \A i \in rows :
                  IF input[i].nan THEN output[i].nan
                  ELSE /\ rat_le(Rat(target_min, 1), output[i])
                       /\ rat_le(output[i], Rat(target_max, 1))
                       /\ (\A v \in ScaleNumbers(var) : rat_le(input[i], v))
                            => output[i] = Rat(target_min, 1)
                       /\ (\A v \in ScaleNumbers(var) : rat_le(v, input[i]))
                            => output[i] = Rat(target_max, 1)

IsConstant(var) == Cardinality(ScaleNumbers(var)) = 1

\* The largest number is within 1e-8 + 1e-5 * |largest| of the smallest.
IsNearlyConstant(var) ==
    \A v, w \in ScaleNumbers(var) :
        (/\ \A u \in ScaleNumbers(var) : rat_le(v, u)
         /\ \A u \in ScaleNumbers(var) : rat_le(u, w))
        => LET gap == rat_sub(w, v)
           IN  gap.num * w.den
                 <= (gap.den * w.den + gap.den * 1000 * abs(w.num)) \div 100000000

-----------------------------------------------------------------------------
(* The parsing functions and the metrics function, one call of one of them *)

\* Observed arrays of the metrics call: empty, NaN only, a number, mixed.
FewArrays == { <<>>, <<NaN>>, <<NaN, NaN>>, <<Num(1)>>, <<NaN, Num(0)>> }

InitParsers ==
    \/ InitFile
    \/ InitTreatments
    \/ InitObserved
    \/ InitEvaluate
    \/ InitMetrics /\ obs_values \in FewArrays

NextParsers ==
    \/ Call_read_file
    \/ Call_read_treatments
    \/ Call_read_observed_data
    \/ Call_read_evaluate_file
    \/ Call_calculate_metrics

SpecParsers == InitParsers /\ [][NextParsers]_vars

\* The value a reader handed back: no exception, and None or a dataset.
Returned_value(result) ==
    /\ ~result.raised
    /\ result.value = None \/ Len(result.value) = 1

\* C24: after a call of read_file, read_treatments, read_observed_data,
\* read_evaluate_file or calculate_metrics, for a missing file, a file
\* without header or data rows, ragged rows, tokens that are no numbers and
\* arrays of NaN only, the call has returned a value (None, a dataset, a
\* record) and no exception has left it.
C24_NeverRaises ==
    pc = "done" =>
        /\ read_file_result # Unset => Returned_value(read_file_result)
        /\ treatments_result # Unset => Returned_value(treatments_result)
        /\ observed_result # Unset => Returned_value(observed_result)
        /\ evaluate_result # Unset => Returned_value(evaluate_result)
        /\ metrics_result # Unset => metrics_result.kind \in {"None", "record"}
        /\ \/ read_file_result # Unset \/ treatments_result # Unset
           \/ observed_result # Unset \/ evaluate_result # Unset
           \/ metrics_result # Unset

\* read_evaluate_file met a row longer than the header (the DataFrame
\* constructor raises ValueError) and returned None after one logger.error.
C24_Witness ==
    /\ EvaluateCall
    /\ evaluate_crop /\ evaluate_file # None
    /\ first_index(evaluate_file[1], strip_starts_with_at) # 0
    /\ Len(EvaluateTokens) > 0
    /\ max_len(EvaluateTokens) > Len(EvaluateNames)
    /\ evaluate_result = Read(None, 1)

-----------------------------------------------------------------------------
(* dssat_io.create_batch_file *)

\* What the call did: kind is "returned" or "raised", exception the class
\* of the exception raised ("" when it returned).
Outcome(kind, exception) == [kind |-> kind, exception |-> exception]

\* not input_data.get(field): the key is missing, or its value is empty
\* (None, "" and [] are all modelled by the empty sequence)
is_missing(value) == value = <<>>

\* int(treatment) raises nothing.
int_raises_never(treatment) == ""

\* The exception int(treatment) raises, "" when it raises none: an int and a
\* float are accepted (a float is truncated), a str must be an integer
\* literal once stripped, None is a TypeError.
int_raises(treatment) ==
    IF treatment.t \in {"int", "float"} THEN ""
    ELSE IF treatment.t = "str"
    THEN IF parse_number(strip(treatment.s)).ok /\ parse_number(strip(treatment.s)).is_int
         THEN "" ELSE "ValueError"
    ELSE "TypeError"

\* trt_num = int(treatment)
int_of(treatment) ==
    IF treatment.t = "str" THEN parse_number(strip(treatment.s)).mant
    ELSE treatment.mant \div pow10(treatment.scale)

\* Lines 406-421: the loop over the treatments, up to and including the
\* k-th; a FileNotFoundError passes the inner "except ValueError".
RECURSIVE treatment_loop(_, _, _)
treatment_loop(treatments, k, exists) ==
    IF k = 0 THEN ""
    ELSE LET before == treatment_loop(treatments, k - 1, exists)
         IN  IF before # "" THEN before
             ELSE IF int_raises(treatments[k]) # "" THEN int_raises(treatments[k])
             ELSE IF ~exists THEN "FileNotFoundError"
             ELSE ""

\* The text written to BatchFile.v48: the experiment and ExpNo lines of the
\* header and one line per treatment.
batch_file_lines(input, treatments) ==
    [experiment |-> input.experiment,
     ExpNo |-> Len(treatments),
     lines |-> [k \in 1..Len(treatments) |->
                  [full_path |-> input.experiment, trt_num |-> int_of(treatments[k])]]]

\* input: input_data; directory: "unknown" when get_crop_details has no
\* crop of that name, "empty" when its directory is '', "missing" when the
\* directory does not exist, "present" otherwise; exists: the experiment
\* file exists; disk: BatchFile.v48 before the call.  Gives the outcome and
\* BatchFile.v48 after the call.  The outer handler (lines 429-431) logs and
\* re-raises.
create_batch_file(input, directory, exists, disk) ==
    LET failed(exception) == [result |-> Outcome("raised", exception), disk |-> disk]
        treatments == input.treatment.items
    IN  IF \E field \in {input.folders, input.executables, input.experiment, treatments} :
               is_missing(field)
        THEN failed("ValueError")
        ELSE IF directory \in {"unknown", "empty"} THEN failed("ValueError")
        ELSE IF directory = "missing" THEN failed("FileNotFoundError")
        ELSE IF treatment_loop(treatments, Len(treatments), exists) # ""
        THEN failed(treatment_loop(treatments, Len(treatments), exists))
        ELSE [result |-> Outcome("returned", ""),
              disk |-> Some(batch_file_lines(input, treatments))]

-----------------------------------------------------------------------------
(* Inputs of create_batch_file *)

\* Most treatments in the list.
MaxTreatments == 2

\* Treatments: an int, an integer as text, texts that are no integer, a
\* float that is no integer, None.
TreatmentItems ==
    { IntCell(1), Str(<<" ", "2">>), Str(<<"x">>), Str(<<"2", ".", "5">>), FloatCell(25, 1), NA }

\* input_data["treatment"]: a list, or one str (line 378 makes it a list)
TreatmentArguments ==
    UNION { { [is_str |-> FALSE, items |-> items] : items \in [1..n -> TreatmentItems] } :
            n \in 0..MaxTreatments }
    \cup { [is_str |-> TRUE, items |-> <<Str(s)>>] : s \in { <<"1">>, <<"1", ",", "2">> } }

InputData ==
    [folders : { <<>>, <<"M", "a", "i", "z", "e">> },
     executables : { <<>>, <<"D", "S", "C", "S", "M", "0", "4", "8", ".", "E", "X", "E">> },
     experiment : { <<>>, <<"A", ".", "M", "Z", "X">> },
     treatment : TreatmentArguments]

\* A batch file left by an earlier run.
OldBatchFile ==
    [experiment |-> <<"B", ".", "M", "Z", "X">>, ExpNo |-> 1,
     lines |-> <<[full_path |-> <<"B", ".", "M", "Z", "X">>, trt_num |-> 3]>>]

InitBatch ==
    /\ pc = "call"
    /\ callee = "create_batch_file"
    /\ input_data \in InputData
    /\ crop_directory \in {"unknown", "empty", "missing", "present"}
    /\ experiment_exists \in BOOLEAN
    /\ batch_file \in {None, Some(OldBatchFile)}
    /\ batch_result = Unset
    /\ IdleDate /\ IdleMetrics /\ IdleDtypes /\ IdlePairs /\ IdleXvar /\ IdleReaders
    /\ IdleEvaluate /\ IdleScale /\ IdleViewer

Call_create_batch_file ==
    /\ pc = "call"
    /\ callee = "create_batch_file"
    /\ LET r == create_batch_file(input_data, crop_directory, experiment_exists,
                                  batch_file)
       IN  /\ batch_result' = r.result
           /\ batch_file' = r.disk
    /\ pc' = "done"
    /\ UNCHANGED <<callee, input_data, crop_directory, experiment_exists, dateVars,
                   metricsVars, dtypesVars, pairsVars, xvarVars, readerVars,
                   evaluateVars, scaleVars, viewerVars>>

NextBatch == Call_create_batch_file

SpecBatch == InitBatch /\ [][NextBatch]_vars

-----------------------------------------------------------------------------
(* Claims about create_batch_file *)

\* The treatment is an integer: an int, a float without a fraction, or the
\* text of an integer.
is_integer_treatment(treatment) ==
    \/ treatment.t = "int"
    \/ treatment.t = "float" /\ is_integer(treatment)
    \/ /\ treatment.t = "str"
       /\ parse_number(strip(treatment.s)).ok
       /\ parse_number(strip(treatment.s)).is_int

\* A required field is missing or empty, or the experiment file does not
\* exist.
FieldMissing ==
    \/ input_data.folders = <<>> \/ input_data.executables = <<>>
    \/ input_data.experiment = <<>> \/ input_data.treatment.items = <<>>
    \/ ~experiment_exists

-----------------------------------------------------------------------------
(* Column names of the returned datasets *)

\* C26 as stated: the column names of a dataset returned by
\* read_evaluate_file are pairwise distinct, also when the header has the
\* name TRNO next to another treatment name (TR and TRNO, TRNO and TRT).
C26_AsStated ==
    EvaluateReturned => ~has_repeats(evaluate_result.value[1].names)

-----------------------------------------------------------------------------
(* Claims about the blocks of read_file (specification SpecFile) *)

\* The column names of the first "@" line of the block of line j, which
\* has one.
BlockNames(j) ==
    LET h == CHOOSE h \in HeadersAbove(j) : \A g \in HeadersAbove(j) : h <= g
    IN  split(strip(lstrip_at(out_file[1][h])))

\* The columns that the first "@" line of the block of line j names with a
\* token of line j.
NamedIn(j) ==
    LET names == BlockNames(j)
        width == Len(split(out_file[1][j]))
    IN  { names[k] : k \in { k \in 1..Len(names) : k <= width } }

\* The columns of the frame in which row i has a value.
ValuedIn(frame, i) == { c \in columns(frame) : ~isna(frame[c].values[i]) }

\* C27: in a file with TREATMENT lines, every row of the returned dataset
\* comes from a line that lies in a block, under an "@" line of that same
\* block, and it has values exactly in the columns that the first "@" line
\* of its block names with a token of the line (besides TRT and DATE): a
\* block without "@" line and the lines before the first TREATMENT line
\* give no row, and no row takes the names of another block's header.
C27_HeaderOfOwnBlock ==
    (FileCall /\ TreatmentIndices # {} /\ read_file_result.value # None) =>
        \A i \in 1..nrows(read_file_result.value[1]) :
            \E j \in RowIndices :
                /\ LinesOfRow(i) = {j}
                /\ BlockStart(j) >= 1
                /\ HeadersAbove(j) # {}
                /\ ValuedIn(read_file_result.value[1], i) \ {TRT, DATE} = NamedIn(j)

\* A file with a header and a row above the first TREATMENT line, a block
\* with its own header and one row, returned that one row; and a file whose
\* second block has a row but no header returned the row of the first only.
C27_Witness ==
    /\ FileCall /\ read_file_result.value # None
    /\ nrows(read_file_result.value[1]) = 1
    /\ read_file_result.value[1][DOY].values = <<Str(<<"0", "6", "1">>)>>
    /\ \/ \E j \in RowIndices : BlockStart(j) = -1
       \/ \E j \in RowIndices : BlockStart(j) >= 1 /\ HeadersAbove(j) = {}

-----------------------------------------------------------------------------
(* The datasets passed to handle_missing_xvar (specification SpecXvar) *)

\* C29 as stated: handle_missing_xvar leaves the datasets passed to it
\* unmodified: after the call the caller's observed dataset and the caller's
\* simulated dataset have the same columns, values and column types as
\* before, all changes being in the returned result only.
C29_AsStated ==
    [][Call_handle_missing_xvar => (obs_data' = obs_data /\ sim_data' = sim_data)]_vars

-----------------------------------------------------------------------------
(* The viewer: selection callbacks, the run button and run_long_task
   (src/ui/callbacks.py, src/ui/app.py) *)

\* Most clicks on the run button in a behaviour: each starts one thread.
MaxRuns == 2

ThreadIds == 1..MaxRuns

\* The disk the viewer looks at: the folders prepare_folders lists, the
\* experiment file names prepare_experiment lists for a folder and the TR
\* numbers prepare_treatment reads for an experiment.
prepare_folders == <<"Maize", "Wheat", "Rice">>

prepare_experiment(selected_folder) ==
    IF selected_folder = "Maize" THEN <<"UFGA8201.MZX", "IUAF9901.MZX">>
    ELSE IF selected_folder = "Wheat" THEN <<"KSAS8101.WHX">>
    ELSE <<>>

prepare_treatment(selected_folder, selected_experiment) ==
    IF selected_experiment = "UFGA8201.MZX" THEN <<"1", "2">>
    ELSE IF selected_experiment = "IUAF9901.MZX" THEN <<"1">>
    ELSE IF selected_experiment = "KSAS8101.WHX" THEN <<"3">>
    ELSE <<>>

\* The text of the exception a failing task raises and the text a task returns.
str_e == "DSSAT execution failed"
result == "Treatment execution completed successfully."

\* Lines 183-233: without a folder or an experiment nothing happens; else the
\* flag is reset and the listbox holds the experiment's treatments, all of
\* them selected. w are the widgets, d is self.data.
on_experiment_selected(w, d) ==
    IF w.folder_var = "" \/ w.experiment_var = "" THEN <<w, d>>
    ELSE << [w EXCEPT !.treatment_listbox =
                          prepare_treatment(w.folder_var, w.experiment_var)],
            [d EXCEPT !.execution_completed = FALSE] >>

\* Lines 142-181: the flag is reset, the first experiment of the folder is
\* selected and on_experiment_selected runs; a folder without experiments
\* clears the experiment and the listbox.
on_folder_selected(w, d) ==
    IF w.folder_var = "" THEN <<w, d>>
    ELSE
        LET experiments == prepare_experiment(w.folder_var)
            reset == [d EXCEPT !.execution_completed = FALSE]
        IN  IF experiments # <<>>
            THEN on_experiment_selected([w EXCEPT !.experiment_var = experiments[1]],
                                        reset)
            ELSE << [w EXCEPT !.experiment_var = "", !.treatment_listbox = <<>>],
                    reset >>

\* Lines 235-249: every item of the listbox is selected; the numbers before
\* " - " are the listbox's items here.
get_selected_treatments(w) == w.treatment_listbox

\* A thread that was not started.
NoThread ==
    [pc |-> "unstarted", selected_folder |-> "", selected_experiment |-> "",
     selected_treatments |-> <<>>, e |-> None]

\* The state after the constructor (self.data at lines 60-68) and
\* initialize_ui (lines 103-110): the first folder is current and
\* on_folder_selected ran.
InitApp ==
    /\ pc = "mainloop"
    /\ callee = "DSSATViewer"
    /\ LET w == [folder_var |-> prepare_folders[1], experiment_var |-> "",
                 treatment_listbox |-> <<>>, refresh_task |-> None]
           d == [execution_completed |-> FALSE, treatments |-> <<>>]
       IN  /\ widgets = on_folder_selected(w, d)[1]
           /\ self_data = on_folder_selected(w, d)[2]
    /\ threads = [t \in ThreadIds |-> NoThread]
    /\ after_queue = <<>>
    /\ called = <<>>
    /\ completed_run = None
    /\ IdleDate /\ IdleMetrics /\ IdleDtypes /\ IdlePairs /\ IdleXvar /\ IdleReaders
    /\ IdleEvaluate /\ IdleScale /\ IdleBatch

notViewerVars ==
    <<pc, callee, dateVars, metricsVars, dtypesVars, pairsVars, xvarVars, readerVars,
      evaluateVars, scaleVars, batchVars>>

\* The user picks a folder in the combobox: <<ComboboxSelected>> (line 80).
Event_on_folder_selected ==
    /\ callee = "DSSATViewer"
    /\ \E f \in { prepare_folders[k] : k \in 1..Len(prepare_folders) } :
         LET r == on_folder_selected([widgets EXCEPT !.folder_var = f], self_data)
         IN  widgets' = r[1] /\ self_data' = r[2]
    /\ UNCHANGED <<threads, after_queue, called, completed_run, notViewerVars>>

\* The user picks one of the folder's experiments (line 83).
Event_on_experiment_selected ==
    /\ callee = "DSSATViewer"
    /\ \E x \in { prepare_experiment(widgets.folder_var)[k] :
                    k \in 1..Len(prepare_experiment(widgets.folder_var)) } :
         LET r == on_experiment_selected([widgets EXCEPT !.experiment_var = x],
                                         self_data)
         IN  widgets' = r[1] /\ self_data' = r[2]
    /\ UNCHANGED <<threads, after_queue, called, completed_run, notViewerVars>>

\* Lines 251-319 and app.py lines 196-199: with a folder, an experiment and
\* a treatment selected a thread is started whose run_task holds the three
\* selections; else a warning is shown.
on_run_button_clicked ==
    /\ callee = "DSSATViewer"
    /\ \E t \in ThreadIds :
         /\ threads[t].pc = "unstarted"
         /\ \A u \in ThreadIds : u < t => threads[u].pc # "unstarted"
         /\ IF \/ widgets.folder_var = ""
               \/ widgets.experiment_var = ""
               \/ get_selected_treatments(widgets) = <<>>
            THEN UNCHANGED threads
            ELSE threads' =
                   [threads EXCEPT ![t] =
                      [pc |-> "run_task",
                       selected_folder |-> widgets.folder_var,
                       selected_experiment |-> widgets.experiment_var,
                       selected_treatments |-> get_selected_treatments(widgets),
                       e |-> None]]
    /\ UNCHANGED <<widgets, self_data, after_queue, called, completed_run,
                   notViewerVars>>

\* Lines 492-516: without the flag a warning; else refresh_task is made from
\* the current folder and experiment and from data['treatments'].
on_refresh_button_clicked ==
    /\ callee = "DSSATViewer"
    /\ IF /\ self_data.execution_completed
          /\ widgets.folder_var # "" /\ widgets.experiment_var # ""
          /\ self_data.treatments # <<>>
       THEN widgets' =
              [widgets EXCEPT !.refresh_task =
                 Some([selected_folder |-> widgets.folder_var,
                       selected_experiment |-> widgets.experiment_var,
                       selected_treatments |-> self_data.treatments])]
       ELSE UNCHANGED widgets
    /\ UNCHANGED <<self_data, threads, after_queue, called, completed_run,
                   notViewerVars>>

\* callbacks.py lines 266-285 in thread t: create_batch_file and
\* run_treatment return, or one of them raises and run_task re-raises
\* (lines 299-301) into the handler of thread_function (app.py line 188).
run_task(t) ==
    /\ callee = "DSSATViewer"
    /\ threads[t].pc = "run_task"
    /\ \E raises \in BOOLEAN :
         threads' = [threads EXCEPT ![t].pc = IF raises THEN "except" ELSE "line_287",
                                    ![t].e = IF raises THEN Some(str_e) ELSE None]
    /\ UNCHANGED <<widgets, self_data, after_queue, called, completed_run,
                   notViewerVars>>

\* callbacks.py line 287 in thread t.
line_287(t) ==
    /\ callee = "DSSATViewer"
    /\ threads[t].pc = "line_287"
    /\ self_data' = [self_data EXCEPT !.execution_completed = TRUE]
    /\ completed_run' = Some(<<threads[t].selected_folder,
                               threads[t].selected_experiment>>)
    /\ threads' = [threads EXCEPT ![t].pc = "line_288"]
    /\ UNCHANGED <<widgets, after_queue, called, notViewerVars>>

\* callbacks.py lines 288-297 in thread t: the treatments are stored and
\* run_task returns its message.
line_288(t) ==
    /\ callee = "DSSATViewer"
    /\ threads[t].pc = "line_288"
    /\ self_data' = [self_data EXCEPT !.treatments = threads[t].selected_treatments]
    /\ threads' = [threads EXCEPT ![t].pc = "returned"]
    /\ UNCHANGED <<widgets, after_queue, called, completed_run, notViewerVars>>

\* app.py lines 184-186 in thread t: the lambda that calls success_callback
\* is queued for the main loop and the thread ends.
after_success(t) ==
    /\ callee = "DSSATViewer"
    /\ threads[t].pc = "returned"
    /\ after_queue' = Append(after_queue, [thread |-> t, callback |-> "success_callback"])
    /\ threads' = [threads EXCEPT ![t].pc = "ended"]
    /\ UNCHANGED <<widgets, self_data, called, completed_run, notViewerVars>>

\* app.py lines 188-193 in thread t: the lambda that calls error_callback
\* with str(e) is queued; the thread is still inside the except block.
after_error(t) ==
    /\ callee = "DSSATViewer"
    /\ threads[t].pc = "except"
    /\ after_queue' = Append(after_queue, [thread |-> t, callback |-> "error_callback"])
    /\ threads' = [threads EXCEPT ![t].pc = "in_except"]
    /\ UNCHANGED <<widgets, self_data, called, completed_run, notViewerVars>>

\* The end of "except Exception as e" in thread t: the name e is unbound
\* when the block is left, and the thread ends.
end_except(t) ==
    /\ callee = "DSSATViewer"
    /\ threads[t].pc = "in_except"
    /\ threads' = [threads EXCEPT ![t].pc = "ended", ![t].e = None]
    /\ UNCHANGED <<widgets, self_data, after_queue, called, completed_run,
                   notViewerVars>>

\* The main loop runs the oldest queued lambda: success_callback(result),
\* or error_callback(str(e)) while e is bound in the thread's frame and a
\* NameError, which Tk reports, when it is not.
mainloop ==
    /\ callee = "DSSATViewer"
    /\ after_queue # <<>>
    /\ LET t == Head(after_queue).thread
       IN  called' =
             Append(called,
                    IF Head(after_queue).callback = "success_callback"
                    THEN [thread |-> t, callback |-> "success_callback", arg |-> result]
                    ELSE IF threads[t].e # None
                    THEN [thread |-> t, callback |-> "error_callback",
                          arg |-> threads[t].e[1]]
                    ELSE [thread |-> t, callback |-> "report_callback_exception",
                          arg |-> "NameError"])
    /\ after_queue' = Tail(after_queue)
    /\ UNCHANGED <<widgets, self_data, threads, completed_run, notViewerVars>>

thread_function(t) ==
    \/ run_task(t) \/ line_287(t) \/ line_288(t)
    \/ after_success(t) \/ after_error(t) \/ end_except(t)

NextApp ==
    \/ Event_on_folder_selected
    \/ Event_on_experiment_selected
    \/ on_run_button_clicked
    \/ on_refresh_button_clicked
    \/ \E t \in ThreadIds : thread_function(t)
    \/ mainloop

SpecApp == InitApp /\ [][NextApp]_vars

\* A started thread runs until it ends (threading.Thread.start, app.py line
\* 199) and the main loop runs what is queued for it (root.after); nothing
\* makes the user click.
SpecAppFair ==
    /\ SpecApp
    /\ \A t \in ThreadIds : WF_vars(thread_function(t))
    /\ WF_vars(mainloop)

-----------------------------------------------------------------------------
(* Claims about the viewer (specifications SpecApp and SpecAppFair) *)

\* The main loop called the callback of the run of thread t with the argument.
Ran(t, callback, arg) ==
    \E k \in 1..Len(called) :
        called[k] = [thread |-> t, callback |-> callback, arg |-> arg]

\* C28 as stated: for every call of run_long_task, if the task raises in the
\* thread then error_callback is eventually run by the main loop with the
\* text of the exception, and if the task returns then success_callback is
\* eventually run by the main loop with the result.
C28_AsStated ==
    \A t \in ThreadIds :
        /\ (threads[t].pc = "except") ~> Ran(t, "error_callback", str_e)
        /\ (threads[t].pc = "returned") ~> Ran(t, "success_callback", result)

\* C30 as stated: whenever data['execution_completed'] is true, the run that
\* completed last was started for the folder and the experiment that are
\* selected now.
C30_AsStated ==
    self_data.execution_completed =>
        completed_run = Some(<<widgets.folder_var, widgets.experiment_var>>)

====
